---------------------------- MODULE Spec2Model ----------------------------
(***************************************************************************)
(* next-cool-cache: hierarchical, scope-aware cache tags built from a      *)
(* declarative schema.                                                     *)
(*                                                                         *)
(* Strings are sequences of one-character strings, so that joining,        *)
(* prefixing and embedding of parameter values are computed character by   *)
(* character.  A JavaScript object is an ordered list of <<key, value>>    *)
(* entries (Object.keys order); every JavaScript value carries a type tag  *)
(* t.                                                                      *)
(***************************************************************************)
EXTENDS Integers, Sequences, FiniteSets, TLC

VARIABLES
    schema,             \* first argument of createCache
    scopes,             \* second argument of createCache
    cache,              \* the facade createCache returned
    mockCacheTag,       \* calls received by next/cache cacheTag
    mockRevalidateTag,  \* calls received by next/cache revalidateTag
    mockUpdateTag,      \* calls received by next/cache updateTag
    call,               \* the facade method invoked last: [op, at, args]
    ret,                \* the tag-builder function invoked last: [fn, args, value]
    second,             \* another facade built in the same test: [schema, scopes, cache]
    history             \* the calls a test of several calls made, in order

vars == <<schema, scopes, cache, mockCacheTag, mockRevalidateTag,
          mockUpdateTag, call, ret, second, history>>

-----------------------------------------------------------------------------
(* Strings and arrays                                                      *)

Slash == <<"/">>
Colon == <<":">>

\* Array.prototype.join
RECURSIVE join(_, _)
join(arr, sep) ==
    IF Len(arr) = 0 THEN <<>>
    ELSE IF Len(arr) = 1 THEN arr[1]
    ELSE arr[1] \o sep \o join(Tail(arr), sep)

\* Array.prototype.reverse
reverse(arr) == [i \in 1..Len(arr) |-> arr[Len(arr) + 1 - i]]

\* Array.prototype.slice(0, n)
slice(arr, n) == SubSeq(arr, 1, IF n < Len(arr) THEN n ELSE Len(arr))

\* s is equal to, or a character prefix of, t
IsPrefix(s, t) == Len(s) <= Len(t) /\ SubSeq(t, 1, Len(s)) = s

\* the elements of a sequence
Range(s) == {s[i] : i \in 1..Len(s)}

-----------------------------------------------------------------------------
(* Record<string, string>: a list of <<name, value>> entries in insertion  *)
(* order, names distinct.                                                  *)

\* params[p]: the empty list stands for undefined, <<v>> for the value v
Lookup(params, p) ==
    LET hits == {i \in 1..Len(params) : params[i][1] = p}
    IN  IF hits = {} THEN <<>> ELSE <<params[CHOOSE i \in hits : TRUE][2]>>

\* Object.values(params)
ObjectValues(params) == [i \in 1..Len(params) |-> params[i][2]]

\* Map.prototype.get(i) || []
MapGet(m, i) == IF i \in DOMAIN m THEN m[i] ELSE <<>>

\* the empty Map
EmptyMap == [i \in {} |-> <<>>]

-----------------------------------------------------------------------------
(* tag-builder.ts                                                          *)

buildTag(path, params) ==
    LET basePath == join(path, Slash)
        paramValues == ObjectValues(params)
    IN  IF Len(paramValues) = 0 THEN basePath
        ELSE basePath \o Colon \o join(paramValues, Colon)

buildAncestorTags(path) ==
    [i \in 1..(IF Len(path) > 0 THEN Len(path) - 1 ELSE 0) |->
        join(slice(path, i), Slash)]

buildScopedTag(scope, tag) == scope \o Slash \o tag

buildAllTags(resourcePath, scopePath, params) ==
    LET resourceKey == buildTag(resourcePath, params)
        resourceAncestors == buildAncestorTags(resourcePath)
        fullPath == scopePath \o resourcePath
        scopedKey == buildTag(fullPath, params)
        scopedAncestors == buildAncestorTags(fullPath)
    IN  <<scopedKey>> \o reverse(scopedAncestors)
            \o <<resourceKey>> \o reverse(resourceAncestors)

buildUnscopedTags(resourcePath, params) ==
    LET resourceKey == buildTag(resourcePath, params)
        resourceAncestors == buildAncestorTags(resourcePath)
    IN  <<resourceKey>> \o reverse(resourceAncestors)

\* variant: the values in the order of the caller's object
SuppliedValues_CallerOrder(segmentParams, params) ==
    LET given == SelectSeq(params, LAMBDA e : e[1] \in Range(segmentParams))
    IN  [k \in 1..Len(given) |-> given[k][2]]

\* variant: no filter, a missing value is coerced to text
SuppliedValues_Coerced(segmentParams, params) ==
    [i \in 1..Len(segmentParams) |->
        IF Len(Lookup(params, segmentParams[i])) = 0
        THEN <<"u", "n", "d", "e", "f", "i", "n", "e", "d">>
        ELSE Lookup(params, segmentParams[i])[1]]

\* variant: filter(Boolean), the empty string is dropped as well
RECURSIVE SuppliedValues_Truthy(_, _)
SuppliedValues_Truthy(segmentParams, params) ==
    IF Len(segmentParams) = 0 THEN <<>>
    ELSE (IF Lookup(params, Head(segmentParams)) = << <<>> >> THEN <<>>
          ELSE Lookup(params, Head(segmentParams)))
            \o SuppliedValues_Truthy(Tail(segmentParams), params)

\* segmentParams.map((p) => params[p]).filter((v) => v !== undefined)
RECURSIVE SuppliedValues(_, _)
SuppliedValues(segmentParams, params) ==
    IF Len(segmentParams) = 0 THEN <<>>
    ELSE Lookup(params, Head(segmentParams))
            \o SuppliedValues(Tail(segmentParams), params)

\* the callback of pathSegments.map in buildTagWithEmbeddedParams; i from 0
EmbedSegment(segment, i, paramsBySegment, params) ==
    LET segmentParams == MapGet(paramsBySegment, i)
        paramValues == SuppliedValues(segmentParams, params)
    IN  IF Len(paramValues) > 0
        THEN segment \o Colon \o join(paramValues, Colon)
        ELSE segment

buildTagWithEmbeddedParams(pathSegments, paramsBySegment, params) ==
    join([k \in 1..Len(pathSegments) |->
            EmbedSegment(pathSegments[k], k - 1, paramsBySegment, params)],
         Slash)

\* variant: the loop runs through i = pathSegments.length
buildAncestorTagsWithEmbeddedParams_ThroughLeaf(pathSegments, paramsBySegment, params) ==
    [i \in 1..Len(pathSegments) |->
        buildTagWithEmbeddedParams(slice(pathSegments, i), paramsBySegment,
                                   params)]

buildAncestorTagsWithEmbeddedParams(pathSegments, paramsBySegment, params) ==
    [i \in 1..(IF Len(pathSegments) > 0 THEN Len(pathSegments) - 1 ELSE 0) |->
        buildTagWithEmbeddedParams(slice(pathSegments, i), paramsBySegment,
                                   params)]

\* variant: the mapping is copied without re-indexing
ShiftParamsBySegment_Unshifted(paramsBySegment, n) == paramsBySegment

\* for (const [index, paramNames] of paramsBySegment)
\*     scoped.set(index + scopePath.length, paramNames)
ShiftParamsBySegment(paramsBySegment, n) ==
    [j \in {i + n : i \in DOMAIN paramsBySegment} |-> paramsBySegment[j - n]]

\* variant: the arrays are kept between calls, so that every other call
\* reverses them back
buildAllTagsWithEmbeddedParams_KeptArrays(resourcePath, scopePath, paramsBySegment, params) ==
    LET fullPath == scopePath \o resourcePath
        scopedParamsBySegment ==
            ShiftParamsBySegment(paramsBySegment, Len(scopePath))
        turn(ancestors) ==
            IF Len(mockCacheTag) % 2 = 0 THEN reverse(ancestors) ELSE ancestors
    IN  <<buildTagWithEmbeddedParams(fullPath, scopedParamsBySegment, params)>>
            \o turn(buildAncestorTagsWithEmbeddedParams(fullPath,
                    scopedParamsBySegment, params))
            \o <<buildTagWithEmbeddedParams(resourcePath, paramsBySegment,
                                            params)>>
            \o turn(buildAncestorTagsWithEmbeddedParams(resourcePath,
                    paramsBySegment, params))

\* variant: the ancestors are not reversed
buildAllTagsWithEmbeddedParams_ShortestFirst(resourcePath, scopePath, paramsBySegment, params) ==
    LET fullPath == scopePath \o resourcePath
        scopedParamsBySegment ==
            ShiftParamsBySegment(paramsBySegment, Len(scopePath))
    IN  <<buildTagWithEmbeddedParams(fullPath, scopedParamsBySegment, params)>>
            \o buildAncestorTagsWithEmbeddedParams(fullPath,
                    scopedParamsBySegment, params)
            \o <<buildTagWithEmbeddedParams(resourcePath, paramsBySegment,
                                            params)>>
            \o buildAncestorTagsWithEmbeddedParams(resourcePath,
                    paramsBySegment, params)

\* variant: the unscoped half is rendered with the re-indexed mapping
buildAllTagsWithEmbeddedParams_OneMapping(resourcePath, scopePath, paramsBySegment, params) ==
    LET fullPath == scopePath \o resourcePath
        scopedParamsBySegment ==
            ShiftParamsBySegment(paramsBySegment, Len(scopePath))
    IN  <<buildTagWithEmbeddedParams(fullPath, scopedParamsBySegment, params)>>
            \o reverse(buildAncestorTagsWithEmbeddedParams(fullPath,
                    scopedParamsBySegment, params))
            \o <<buildTagWithEmbeddedParams(resourcePath,
                    scopedParamsBySegment, params)>>
            \o reverse(buildAncestorTagsWithEmbeddedParams(resourcePath,
                    scopedParamsBySegment, params))

buildAllTagsWithEmbeddedParams(resourcePath, scopePath, paramsBySegment, params) ==
    LET fullPath == scopePath \o resourcePath
        scopedParamsBySegment ==
            ShiftParamsBySegment(paramsBySegment, Len(scopePath))
        scopedKey ==
            buildTagWithEmbeddedParams(fullPath, scopedParamsBySegment, params)
        scopedAncestors ==
            buildAncestorTagsWithEmbeddedParams(fullPath,
                                                scopedParamsBySegment, params)
        unscopedKey ==
            buildTagWithEmbeddedParams(resourcePath, paramsBySegment, params)
        unscopedAncestors ==
            buildAncestorTagsWithEmbeddedParams(resourcePath, paramsBySegment,
                                                params)
    IN  <<scopedKey>> \o reverse(scopedAncestors)
            \o <<unscopedKey>> \o reverse(unscopedAncestors)

buildUnscopedTagsWithEmbeddedParams(resourcePath, paramsBySegment, params) ==
    LET resourceKey ==
            buildTagWithEmbeddedParams(resourcePath, paramsBySegment, params)
        resourceAncestors ==
            buildAncestorTagsWithEmbeddedParams(resourcePath, paramsBySegment,
                                                params)
    IN  <<resourceKey>> \o reverse(resourceAncestors)

-----------------------------------------------------------------------------
(* JavaScript values: [t |-> "obj", entries |-> <<<<key, value>>, ...>>],   *)
(* [t |-> "arr", items |-> <<...>>], [t |-> "str", s |-> chars],           *)
(* [t |-> "null"], [t |-> "num"], [t |-> "fn", ...captured variables].     *)

Obj(entries) == [t |-> "obj", entries |-> entries]
Arr(items) == [t |-> "arr", items |-> items]
Str(s) == [t |-> "str", s |-> s]
Null == [t |-> "null"]
Num == [t |-> "num"]

K_params == <<"_", "p", "a", "r", "a", "m", "s">>
K_path == <<"_", "p", "a", "t", "h">>
K_cacheTag == <<"c", "a", "c", "h", "e", "T", "a", "g">>
K_revalidateTag ==
    <<"r", "e", "v", "a", "l", "i", "d", "a", "t", "e", "T", "a", "g">>
K_updateTag == <<"u", "p", "d", "a", "t", "e", "T", "a", "g">>
Max == <<"m", "a", "x">>
Root == <<"r", "o", "o", "t">>

\* typeof v === "object" && v !== null
IsObject(v) == v.t \in {"obj", "arr"}

Digit(i) == <<CASE i = 0 -> "0" [] i = 1 -> "1" [] i = 2 -> "2"
                [] i = 3 -> "3" [] OTHER -> "9">>

\* Object.keys(v)
ObjectKeys(v) ==
    IF v.t = "obj" THEN [i \in 1..Len(v.entries) |-> v.entries[i][1]]
    ELSE IF v.t = "arr" THEN [i \in 1..Len(v.items) |-> Digit(i - 1)]
    ELSE <<>>

\* key in v
Has(v, key) ==
    LET keys == ObjectKeys(v) IN \E i \in 1..Len(keys) : keys[i] = key

\* v[key], for a key of v
Get(v, key) ==
    LET keys == ObjectKeys(v)
        i == CHOOSE j \in 1..Len(keys) : keys[j] = key
    IN  IF v.t = "obj" THEN v.entries[i][2] ELSE Str(<<v.items[i]>>)

\* variant: a key the object already has is left as it is
Set_KeepExisting(o, key, value) ==
    IF Has(o, key) THEN o ELSE Obj(Append(o.entries, <<key, value>>))

\* o[key] = value: an existing key keeps its place
Set(o, key, value) ==
    IF Has(o, key)
    THEN Obj([i \in 1..Len(o.entries) |->
                IF o.entries[i][1] = key THEN <<key, value>>
                ELSE o.entries[i]])
    ELSE Obj(Append(o.entries, <<key, value>>))

\* Map.prototype.set on a copy
MapSet(m, i, v) == [j \in DOMAIN m \cup {i} |-> IF j = i THEN v ELSE m[j]]

-----------------------------------------------------------------------------
(* schema-utils.ts                                                         *)

\* variant: only the empty object is a leaf
isLeafNode_EmptyOnly(value) ==
    IF ~IsObject(value) THEN FALSE ELSE Len(ObjectKeys(value)) = 0

isLeafNode(value) ==
    IF ~IsObject(value) THEN FALSE
    ELSE LET keys == ObjectKeys(value)
         IN  \/ Len(keys) = 0
             \/ Len(keys) = 1 /\ keys[1] = K_params

getParams(node) ==
    IF /\ IsObject(node)
       /\ node.t = "obj"
       /\ Has(node, K_params)
       /\ Get(node, K_params).t = "arr"
    THEN Get(node, K_params).items
    ELSE <<>>

getChildKeys(node) ==
    IF ~IsObject(node) THEN <<>>
    ELSE SelectSeq(ObjectKeys(node), LAMBDA key : key # K_params)

-----------------------------------------------------------------------------
(* What can raise while a schema is walked.  Object.keys(v) raises a       *)
(* TypeError for null, and "k" in v raises one for every value that is no  *)
(* object; each use below sits behind the guard the source puts before it. *)

ObjectKeysThrows(v) == v.t = "null"
InThrows(v) == v.t \notin {"obj", "arr"}

isLeafNode_Throws(value) ==
    IF ~IsObject(value) THEN FALSE ELSE ObjectKeysThrows(value)

getParams_Throws(node) == IsObject(node) /\ InThrows(node)

\* variant: no typeof guard before Object.keys
getChildKeys_Throws_Unguarded(node) == ObjectKeysThrows(node)

getChildKeys_Throws(node) ==
    IF ~IsObject(node) THEN FALSE ELSE ObjectKeysThrows(node)

\* buildScopedBranch / buildUnscopedBranch raise on the schema node
RECURSIVE buildBranch_Throws(_)
buildBranch_Throws(sch) ==
    \/ getParams_Throws(sch)
    \/ getChildKeys_Throws(sch)
    \/ \E i \in 1..Len(getChildKeys(sch)) :
        LET childSchema == Get(sch, getChildKeys(sch)[i])
        IN  \/ isLeafNode_Throws(childSchema)
            \/ IF isLeafNode(childSchema) THEN getParams_Throws(childSchema)
               ELSE buildBranch_Throws(childSchema)

\* the schema nodes buildScopedBranch / buildUnscopedBranch build a node
\* for, in the order they do: the node itself, then child by child
RECURSIVE buildBranch_Visits(_, _)
RECURSIVE VisitsOfChildren(_, _, _)
VisitsOfChildren(sch, keys, resourcePath) ==
    IF Len(keys) = 0 THEN <<>>
    ELSE
      LET childSchema == Get(sch, Head(keys))
          childPath == Append(resourcePath, Head(keys))
      IN  (IF isLeafNode(childSchema) THEN <<childPath>>
           ELSE buildBranch_Visits(childSchema, childPath))
            \o VisitsOfChildren(sch, Tail(keys), resourcePath)

buildBranch_Visits(sch, resourcePath) ==
    <<resourcePath>> \o VisitsOfChildren(sch, getChildKeys(sch), resourcePath)

\* createCache: one walk for the unscoped tree, then one per scope
createCache_Throws(sch, scopeList) ==
    buildBranch_Throws(sch) \/ (Len(scopeList) > 0 /\ buildBranch_Throws(sch))

createCache_Visits(sch, scopeList) ==
    <<buildBranch_Visits(sch, <<>>)>>
        \o [i \in 1..Len(scopeList) |-> buildBranch_Visits(sch, <<>>)]

-----------------------------------------------------------------------------
(* create-cache.ts: the nodes.  A method is the closure value               *)
(* [t |-> "fn", impl |-> <<builder, method>>] with the variables it        *)
(* captured; Apply below runs its body.                                    *)

buildLeafNodeImpl(resourcePath, scopePath, paramsBySegment) ==
    LET scopedKey == join(scopePath \o resourcePath, Slash)
        scopedParamsBySegment ==
            ShiftParamsBySegment(paramsBySegment, Len(scopePath))
    IN  Obj(<<
        <<K_cacheTag,
          [t |-> "fn", impl |-> <<"buildLeafNodeImpl", "cacheTag">>,
           resourcePath |-> resourcePath, scopePath |-> scopePath,
           paramsBySegment |-> paramsBySegment]>>,
        <<K_revalidateTag,
          [t |-> "fn", impl |-> <<"buildLeafNodeImpl", "revalidateTag">>,
           resourcePath |-> resourcePath, scopePath |-> scopePath,
           scopedParamsBySegment |-> scopedParamsBySegment]>>,
        <<K_updateTag,
          [t |-> "fn", impl |-> <<"buildLeafNodeImpl", "updateTag">>,
           resourcePath |-> resourcePath, scopePath |-> scopePath,
           scopedParamsBySegment |-> scopedParamsBySegment]>>,
        <<K_path, Str(scopedKey)>> >>)

buildUnscopedLeafNodeImpl(resourcePath, paramsBySegment) ==
    LET resourceKey == join(resourcePath, Slash)
    IN  Obj(<<
        <<K_cacheTag,
          [t |-> "fn", impl |-> <<"buildUnscopedLeafNodeImpl", "cacheTag">>,
           resourcePath |-> resourcePath,
           paramsBySegment |-> paramsBySegment]>>,
        <<K_revalidateTag,
          [t |-> "fn",
           impl |-> <<"buildUnscopedLeafNodeImpl", "revalidateTag">>,
           resourcePath |-> resourcePath,
           paramsBySegment |-> paramsBySegment]>>,
        <<K_updateTag,
          [t |-> "fn", impl |-> <<"buildUnscopedLeafNodeImpl", "updateTag">>,
           resourcePath |-> resourcePath,
           paramsBySegment |-> paramsBySegment]>>,
        <<K_path, Str(resourceKey)>> >>)

\* variant: _path without the scope prefix
buildBranchNodeImpl_ResourcePath(resourcePath, scopePath, paramsBySegment) ==
    LET scopedParamsBySegment ==
            ShiftParamsBySegment(paramsBySegment, Len(scopePath))
    IN  Obj(<<
        <<K_revalidateTag,
          [t |-> "fn", impl |-> <<"buildBranchNodeImpl", "revalidateTag">>,
           resourcePath |-> resourcePath, scopePath |-> scopePath,
           scopedParamsBySegment |-> scopedParamsBySegment]>>,
        <<K_updateTag,
          [t |-> "fn", impl |-> <<"buildBranchNodeImpl", "updateTag">>,
           resourcePath |-> resourcePath, scopePath |-> scopePath,
           scopedParamsBySegment |-> scopedParamsBySegment]>>,
        <<K_path, Str(join(resourcePath, Slash))>> >>)

buildBranchNodeImpl(resourcePath, scopePath, paramsBySegment) ==
    LET scopedKey == join(scopePath \o resourcePath, Slash)
        scopedParamsBySegment ==
            ShiftParamsBySegment(paramsBySegment, Len(scopePath))
    IN  Obj(<<
        <<K_revalidateTag,
          [t |-> "fn", impl |-> <<"buildBranchNodeImpl", "revalidateTag">>,
           resourcePath |-> resourcePath, scopePath |-> scopePath,
           scopedParamsBySegment |-> scopedParamsBySegment]>>,
        <<K_updateTag,
          [t |-> "fn", impl |-> <<"buildBranchNodeImpl", "updateTag">>,
           resourcePath |-> resourcePath, scopePath |-> scopePath,
           scopedParamsBySegment |-> scopedParamsBySegment]>>,
        <<K_path, Str(scopedKey)>> >>)

\* the object literal of buildUnscopedBranch
UnscopedBranchNode(resourcePath, newParamsBySegment) ==
    LET resourceKey == join(resourcePath, Slash)
    IN  Obj(<<
        <<K_revalidateTag,
          [t |-> "fn", impl |-> <<"buildUnscopedBranch", "revalidateTag">>,
           resourcePath |-> resourcePath,
           newParamsBySegment |-> newParamsBySegment]>>,
        <<K_updateTag,
          [t |-> "fn", impl |-> <<"buildUnscopedBranch", "updateTag">>,
           resourcePath |-> resourcePath,
           newParamsBySegment |-> newParamsBySegment]>>,
        <<K_path, Str(resourceKey)>> >>)

-----------------------------------------------------------------------------
(* create-cache.ts: the recursive descent                                  *)

\* variant: the names of the schema root are bound as well
BranchParamsBySegment_RootBound(sch, resourcePath, paramsBySegment) ==
    LET branchParams == getParams(sch)
    IN  IF Len(branchParams) > 0
        THEN MapSet(paramsBySegment, Len(resourcePath) - 1, branchParams)
        ELSE paramsBySegment

\* newParamsBySegment of buildScopedBranch and buildUnscopedBranch
BranchParamsBySegment(sch, resourcePath, paramsBySegment) ==
    LET branchParams == getParams(sch)
    IN  IF Len(branchParams) > 0 /\ Len(resourcePath) > 0
        THEN MapSet(paramsBySegment, Len(resourcePath) - 1, branchParams)
        ELSE paramsBySegment

\* variant: the leaf's names are bound to the index of its parent
LeafParamsBySegment_ParentIndex(childSchema, childPath, newParamsBySegment) ==
    LET leafParams == getParams(childSchema)
    IN  IF Len(leafParams) > 0
        THEN MapSet(newParamsBySegment, Len(childPath) - 2, leafParams)
        ELSE newParamsBySegment

\* leafParamsBySegment of buildScopedBranch and buildUnscopedBranch
LeafParamsBySegment(childSchema, childPath, newParamsBySegment) ==
    LET leafParams == getParams(childSchema)
    IN  IF Len(leafParams) > 0
        THEN MapSet(newParamsBySegment, Len(childPath) - 1, leafParams)
        ELSE newParamsBySegment

RECURSIVE buildScopedBranch(_, _, _, _)
RECURSIVE ScopedChildren(_, _, _, _, _, _)

\* for (const key of getChildKeys(schema)) { result[key] = ... }
ScopedChildren(sch, keys, resourcePath, scopePath, newParamsBySegment, result) ==
    IF Len(keys) = 0 THEN result
    ELSE
      LET key == Head(keys)
          childSchema == Get(sch, key)
          childPath == Append(resourcePath, key)
          child ==
            IF isLeafNode(childSchema)
            THEN buildLeafNodeImpl(childPath, scopePath,
                    LeafParamsBySegment(childSchema, childPath,
                                        newParamsBySegment))
            ELSE buildScopedBranch(childSchema, childPath, scopePath,
                                   newParamsBySegment)
      IN  ScopedChildren(sch, Tail(keys), resourcePath, scopePath,
                         newParamsBySegment, Set(result, key, child))

buildScopedBranch(sch, resourcePath, scopePath, paramsBySegment) ==
    LET newParamsBySegment ==
            BranchParamsBySegment(sch, resourcePath, paramsBySegment)
        branchNode ==
            buildBranchNodeImpl(resourcePath, scopePath, newParamsBySegment)
    IN  ScopedChildren(sch, getChildKeys(sch), resourcePath, scopePath,
                       newParamsBySegment, branchNode)

RECURSIVE buildUnscopedBranch(_, _, _)
RECURSIVE UnscopedChildren(_, _, _, _, _)

UnscopedChildren(sch, keys, resourcePath, newParamsBySegment, result) ==
    IF Len(keys) = 0 THEN result
    ELSE
      LET key == Head(keys)
          childSchema == Get(sch, key)
          childPath == Append(resourcePath, key)
          child ==
            IF isLeafNode(childSchema)
            THEN buildUnscopedLeafNodeImpl(childPath,
                    LeafParamsBySegment(childSchema, childPath,
                                        newParamsBySegment))
            ELSE buildUnscopedBranch(childSchema, childPath,
                                     newParamsBySegment)
      IN  UnscopedChildren(sch, Tail(keys), resourcePath, newParamsBySegment,
                           Set(result, key, child))

buildUnscopedBranch(sch, resourcePath, paramsBySegment) ==
    LET newParamsBySegment ==
            BranchParamsBySegment(sch, resourcePath, paramsBySegment)
    IN  UnscopedChildren(sch, getChildKeys(sch), resourcePath,
                         newParamsBySegment,
                         UnscopedBranchNode(resourcePath, newParamsBySegment))

\* for (const scope of scopes) result[scope] = buildScopedBranch(...)
RECURSIVE AddScopes(_, _, _)
AddScopes(sch, scopeList, result) ==
    IF Len(scopeList) = 0 THEN result
    ELSE AddScopes(sch, Tail(scopeList),
                   Set(result, Head(scopeList),
                       buildScopedBranch(sch, <<>>, <<Head(scopeList)>>,
                                         EmptyMap)))

createCache(sch, scopeList) ==
    AddScopes(sch, scopeList, buildUnscopedBranch(sch, <<>>, EmptyMap))

-----------------------------------------------------------------------------
(* The bodies of the methods.  Each returns the call it makes to           *)
(* next/cache: [prim |-> name, args |-> argument list]; p is the argument  *)
(* list it was called with, <<>> or <<params>>.                            *)

\* p ?? {}
OrEmpty(p) == IF Len(p) = 0 THEN <<>> ELSE p[1]

\* a || b || c on strings: the empty string is falsy
OrElse(a, b) == IF Len(a) > 0 THEN a ELSE b

LeafCacheTag(fn, p) ==
    [prim |-> "cacheTag",
     args |-> buildAllTagsWithEmbeddedParams(fn.resourcePath, fn.scopePath,
                                             fn.paramsBySegment, OrEmpty(p))]

\* variant: revalidateTag renders with the mapping before re-indexing
LeafRevalidateTag_Unshifted(fn, p) ==
    [prim |-> "revalidateTag",
     args |-> <<buildTagWithEmbeddedParams(fn.scopePath \o fn.resourcePath,
                    ShiftParamsBySegment(fn.scopedParamsBySegment,
                                         0 - Len(fn.scopePath)),
                    OrEmpty(p)),
                Max>>]

LeafRevalidateTag(fn, p) ==
    [prim |-> "revalidateTag",
     args |-> <<buildTagWithEmbeddedParams(fn.scopePath \o fn.resourcePath,
                    fn.scopedParamsBySegment, OrEmpty(p)),
                Max>>]

\* variant: updateTag still builds the flat tag
LeafUpdateTag_Flat(fn, p) ==
    [prim |-> "updateTag",
     args |-> <<buildTag(fn.scopePath \o fn.resourcePath, OrEmpty(p))>>]

LeafUpdateTag(fn, p) ==
    [prim |-> "updateTag",
     args |-> <<buildTagWithEmbeddedParams(fn.scopePath \o fn.resourcePath,
                    fn.scopedParamsBySegment, OrEmpty(p))>>]

UnscopedLeafCacheTag(fn, p) ==
    [prim |-> "cacheTag",
     args |-> buildUnscopedTagsWithEmbeddedParams(fn.resourcePath,
                    fn.paramsBySegment, OrEmpty(p))]

UnscopedLeafRevalidateTag(fn, p) ==
    [prim |-> "revalidateTag",
     args |-> <<buildTagWithEmbeddedParams(fn.resourcePath,
                    fn.paramsBySegment, OrEmpty(p)),
                Max>>]

\* variant: updateTag of the unscoped leaf goes through revalidateTag
UnscopedLeafUpdateTag_ViaRevalidate(fn, p) ==
    [prim |-> "revalidateTag",
     args |-> <<buildTagWithEmbeddedParams(fn.resourcePath,
                    fn.paramsBySegment, OrEmpty(p)),
                Max>>]

UnscopedLeafUpdateTag(fn, p) ==
    [prim |-> "updateTag",
     args |-> <<buildTagWithEmbeddedParams(fn.resourcePath,
                    fn.paramsBySegment, OrEmpty(p))>>]

BranchRevalidateTag(fn, p) ==
    LET tag == buildTagWithEmbeddedParams(fn.scopePath \o fn.resourcePath,
                    fn.scopedParamsBySegment, OrEmpty(p))
    IN  [prim |-> "revalidateTag",
         args |-> <<OrElse(tag, OrElse(MapGet(fn.scopePath, 1), Root)),
                    Max>>]

\* variant: the branch renders its resource path without the scope
BranchUpdateTag_ResourceOnly(fn, p) ==
    LET tag == buildTagWithEmbeddedParams(fn.resourcePath,
                    ShiftParamsBySegment(fn.scopedParamsBySegment,
                                         0 - Len(fn.scopePath)),
                    OrEmpty(p))
    IN  [prim |-> "updateTag",
         args |-> <<OrElse(tag, OrElse(MapGet(fn.scopePath, 1), Root))>>]

BranchUpdateTag(fn, p) ==
    LET tag == buildTagWithEmbeddedParams(fn.scopePath \o fn.resourcePath,
                    fn.scopedParamsBySegment, OrEmpty(p))
    IN  [prim |-> "updateTag",
         args |-> <<OrElse(tag, OrElse(MapGet(fn.scopePath, 1), Root))>>]

\* variant: no fallback for an empty tag
UnscopedBranchRevalidateTag_NoFallback(fn, p) ==
    LET tag == buildTagWithEmbeddedParams(fn.resourcePath,
                    fn.newParamsBySegment, OrEmpty(p))
    IN  [prim |-> "revalidateTag", args |-> <<tag, Max>>]

UnscopedBranchRevalidateTag(fn, p) ==
    LET tag == buildTagWithEmbeddedParams(fn.resourcePath,
                    fn.newParamsBySegment, OrEmpty(p))
    IN  [prim |-> "revalidateTag", args |-> <<OrElse(tag, Root), Max>>]

UnscopedBranchUpdateTag(fn, p) ==
    LET tag == buildTagWithEmbeddedParams(fn.resourcePath,
                    fn.newParamsBySegment, OrEmpty(p))
    IN  [prim |-> "updateTag", args |-> <<OrElse(tag, Root)>>]

\* calling the function value fn with the argument list p
Apply(fn, p) ==
    CASE fn.impl = <<"buildLeafNodeImpl", "cacheTag">> ->
            LeafCacheTag(fn, p)
      [] fn.impl = <<"buildLeafNodeImpl", "revalidateTag">> ->
            LeafRevalidateTag(fn, p)
      [] fn.impl = <<"buildLeafNodeImpl", "updateTag">> ->
            LeafUpdateTag(fn, p)
      [] fn.impl = <<"buildUnscopedLeafNodeImpl", "cacheTag">> ->
            UnscopedLeafCacheTag(fn, p)
      [] fn.impl = <<"buildUnscopedLeafNodeImpl", "revalidateTag">> ->
            UnscopedLeafRevalidateTag(fn, p)
      [] fn.impl = <<"buildUnscopedLeafNodeImpl", "updateTag">> ->
            UnscopedLeafUpdateTag(fn, p)
      [] fn.impl = <<"buildBranchNodeImpl", "revalidateTag">> ->
            BranchRevalidateTag(fn, p)
      [] fn.impl = <<"buildBranchNodeImpl", "updateTag">> ->
            BranchUpdateTag(fn, p)
      [] fn.impl = <<"buildUnscopedBranch", "revalidateTag">> ->
            UnscopedBranchRevalidateTag(fn, p)
      [] fn.impl = <<"buildUnscopedBranch", "updateTag">> ->
            UnscopedBranchUpdateTag(fn, p)

-----------------------------------------------------------------------------
(* The legacy create-cache.ts (flat format), release 0.1                   *)

legacy_buildLeafNodeImpl(resourcePath, scopePath, params) ==
    LET scopedKey == join(scopePath \o resourcePath, Slash)
    IN  Obj(<<
        <<K_cacheTag,
          [t |-> "fn", impl |-> <<"legacy_buildLeafNodeImpl", "cacheTag">>,
           resourcePath |-> resourcePath, scopePath |-> scopePath]>>,
        <<K_revalidateTag,
          [t |-> "fn",
           impl |-> <<"legacy_buildLeafNodeImpl", "revalidateTag">>,
           resourcePath |-> resourcePath, scopePath |-> scopePath]>>,
        <<K_updateTag,
          [t |-> "fn", impl |-> <<"legacy_buildLeafNodeImpl", "updateTag">>,
           resourcePath |-> resourcePath, scopePath |-> scopePath]>>,
        <<K_path, Str(scopedKey)>> >>)

legacy_buildUnscopedLeafNodeImpl(resourcePath, params) ==
    LET resourceKey == join(resourcePath, Slash)
    IN  Obj(<<
        <<K_cacheTag,
          [t |-> "fn",
           impl |-> <<"legacy_buildUnscopedLeafNodeImpl", "cacheTag">>,
           resourcePath |-> resourcePath]>>,
        <<K_revalidateTag,
          [t |-> "fn",
           impl |-> <<"legacy_buildUnscopedLeafNodeImpl", "revalidateTag">>,
           resourcePath |-> resourcePath]>>,
        <<K_updateTag,
          [t |-> "fn",
           impl |-> <<"legacy_buildUnscopedLeafNodeImpl", "updateTag">>,
           resourcePath |-> resourcePath]>>,
        <<K_path, Str(resourceKey)>> >>)

legacy_buildBranchNodeImpl(resourcePath, scopePath) ==
    LET scopedKey == join(scopePath \o resourcePath, Slash)
    IN  Obj(<<
        <<K_revalidateTag,
          [t |-> "fn",
           impl |-> <<"legacy_buildBranchNodeImpl", "revalidateTag">>,
           scopedKey |-> scopedKey, scopePath |-> scopePath]>>,
        <<K_updateTag,
          [t |-> "fn", impl |-> <<"legacy_buildBranchNodeImpl", "updateTag">>,
           scopedKey |-> scopedKey, scopePath |-> scopePath]>>,
        <<K_path, Str(scopedKey)>> >>)

\* the object literal of the legacy buildUnscopedBranch
legacy_UnscopedBranchNode(resourcePath) ==
    LET resourceKey == join(resourcePath, Slash)
    IN  Obj(<<
        <<K_revalidateTag,
          [t |-> "fn",
           impl |-> <<"legacy_buildUnscopedBranch", "revalidateTag">>,
           resourceKey |-> resourceKey]>>,
        <<K_updateTag,
          [t |-> "fn", impl |-> <<"legacy_buildUnscopedBranch", "updateTag">>,
           resourceKey |-> resourceKey]>>,
        <<K_path, Str(resourceKey)>> >>)

RECURSIVE legacy_buildScopedBranch(_, _, _)
RECURSIVE legacy_ScopedChildren(_, _, _, _, _)

legacy_ScopedChildren(sch, keys, resourcePath, scopePath, result) ==
    IF Len(keys) = 0 THEN result
    ELSE
      LET key == Head(keys)
          childSchema == Get(sch, key)
          childPath == Append(resourcePath, key)
          child ==
            IF isLeafNode(childSchema)
            THEN legacy_buildLeafNodeImpl(childPath, scopePath,
                                          getParams(childSchema))
            ELSE legacy_buildScopedBranch(childSchema, childPath, scopePath)
      IN  legacy_ScopedChildren(sch, Tail(keys), resourcePath, scopePath,
                                Set(result, key, child))

legacy_buildScopedBranch(sch, resourcePath, scopePath) ==
    legacy_ScopedChildren(sch, getChildKeys(sch), resourcePath, scopePath,
                          legacy_buildBranchNodeImpl(resourcePath, scopePath))

RECURSIVE legacy_buildUnscopedBranch(_, _)
RECURSIVE legacy_UnscopedChildren(_, _, _, _)

legacy_UnscopedChildren(sch, keys, resourcePath, result) ==
    IF Len(keys) = 0 THEN result
    ELSE
      LET key == Head(keys)
          childSchema == Get(sch, key)
          childPath == Append(resourcePath, key)
          child ==
            IF isLeafNode(childSchema)
            THEN legacy_buildUnscopedLeafNodeImpl(childPath,
                                                  getParams(childSchema))
            ELSE legacy_buildUnscopedBranch(childSchema, childPath)
      IN  legacy_UnscopedChildren(sch, Tail(keys), resourcePath,
                                  Set(result, key, child))

legacy_buildUnscopedBranch(sch, resourcePath) ==
    legacy_UnscopedChildren(sch, getChildKeys(sch), resourcePath,
                            legacy_UnscopedBranchNode(resourcePath))

RECURSIVE legacy_AddScopes(_, _, _)
legacy_AddScopes(sch, scopeList, result) ==
    IF Len(scopeList) = 0 THEN result
    ELSE legacy_AddScopes(sch, Tail(scopeList),
            Set(result, Head(scopeList),
                legacy_buildScopedBranch(sch, <<>>, <<Head(scopeList)>>)))

legacy_createCache(sch, scopeList) ==
    legacy_AddScopes(sch, scopeList, legacy_buildUnscopedBranch(sch, <<>>))

\* scopePath[0] || "root"
legacy_ScopeOrRoot(scopePath) ==
    IF Len(scopePath) > 0 THEN OrElse(scopePath[1], Root) ELSE Root

\* calling the function value fn of the legacy cache with argument list p
legacy_Apply(fn, p) ==
    CASE fn.impl = <<"legacy_buildLeafNodeImpl", "cacheTag">> ->
            [prim |-> "cacheTag",
             args |-> buildAllTags(fn.resourcePath, fn.scopePath, OrEmpty(p))]
      [] fn.impl = <<"legacy_buildLeafNodeImpl", "revalidateTag">> ->
            [prim |-> "revalidateTag",
             args |-> <<buildTag(fn.scopePath \o fn.resourcePath, OrEmpty(p)),
                        Max>>]
      [] fn.impl = <<"legacy_buildLeafNodeImpl", "updateTag">> ->
            [prim |-> "updateTag",
             args |-> <<buildTag(fn.scopePath \o fn.resourcePath,
                                 OrEmpty(p))>>]
      [] fn.impl = <<"legacy_buildUnscopedLeafNodeImpl", "cacheTag">> ->
            [prim |-> "cacheTag",
             args |-> buildUnscopedTags(fn.resourcePath, OrEmpty(p))]
      [] fn.impl = <<"legacy_buildUnscopedLeafNodeImpl", "revalidateTag">> ->
            [prim |-> "revalidateTag",
             args |-> <<buildTag(fn.resourcePath, OrEmpty(p)), Max>>]
      [] fn.impl = <<"legacy_buildUnscopedLeafNodeImpl", "updateTag">> ->
            [prim |-> "updateTag",
             args |-> <<buildTag(fn.resourcePath, OrEmpty(p))>>]
      [] fn.impl = <<"legacy_buildBranchNodeImpl", "revalidateTag">> ->
            [prim |-> "revalidateTag",
             args |-> <<OrElse(fn.scopedKey, legacy_ScopeOrRoot(fn.scopePath)),
                        Max>>]
      [] fn.impl = <<"legacy_buildBranchNodeImpl", "updateTag">> ->
            [prim |-> "updateTag",
             args |-> <<OrElse(fn.scopedKey,
                               legacy_ScopeOrRoot(fn.scopePath))>>]
      [] fn.impl = <<"legacy_buildUnscopedBranch", "revalidateTag">> ->
            [prim |-> "revalidateTag",
             args |-> <<OrElse(fn.resourceKey, Root), Max>>]
      [] fn.impl = <<"legacy_buildUnscopedBranch", "updateTag">> ->
            [prim |-> "updateTag", args |-> <<OrElse(fn.resourceKey, Root)>>]

-----------------------------------------------------------------------------
(* Inputs                                                                  *)

MaxDepth == 3       \* longest generated chain of nested resources
MaxParams == 2      \* most entries of a parameter map passed to a method

S_users == <<"u">>
S_list == <<"l">>
S_byId == <<"b">>
S_config == <<"c", "f">>
S_workspaces == <<"w">>
S_docs == <<"d">>
Sc_admin == <<"A">>
Sc_public == <<"P">>

EmptyLeaf == Obj(<<>>)
LeafWith(names) == Obj(<< <<K_params, Arr(names)>> >>)

\* __tests__/fixtures/schemas.ts simpleSchema
simpleSchema ==
    Obj(<< <<S_users, Obj(<< <<S_list, EmptyLeaf>>,
                             <<S_byId, LeafWith(<<"id">>)>> >>)>>,
           <<S_config, EmptyLeaf>> >>)

\* CHANGELOG 0.2.0: branch-level _params above a parameterised leaf
hierarchicalSchema ==
    Obj(<< <<S_workspaces,
             Obj(<< <<K_params, Arr(<<"userId">>)>>,
                    <<S_docs, Obj(<< <<S_byId, LeafWith(<<"id">>)>>,
                                     <<S_list, EmptyLeaf>> >>)>> >>)>> >>)

\* __tests__/fixtures/schemas.ts multiParamSchema, beside a sibling leaf
multiParamSchema ==
    Obj(<< <<S_workspaces,
             Obj(<< <<S_byId, LeafWith(<<"ownerId", "slug">>)>>,
                    <<S_list, LeafWith(<<"page">>)>> >>)>> >>)

\* _params on the schema root itself
rootParamsSchema ==
    Obj(<< <<K_params, Arr(<<"tenant">>)>>,
           <<S_users, Obj(<< <<S_byId, LeafWith(<<"id">>)>> >>)>> >>)

\* children that are not schema objects, a _params that is not an array,
\* and an empty _params
malformedSchema ==
    Obj(<< <<S_workspaces,
             Obj(<< <<K_params, Str(<<"i", "d">>)>>,
                    <<S_docs, Null>>,
                    <<S_list, LeafWith(<<>>)>> >>)>>,
           <<S_config, Num>> >>)

FixtureSchemas ==
    {simpleSchema, hierarchicalSchema, multiParamSchema, rootParamsSchema,
     malformedSchema}

\* generated: a chain of nested resources, level k declaring decls[k]
ChainKeys == <<S_users, S_docs, S_byId, S_list>>
ChainDecls == {<<>>, <<"y", "x">>}

RECURSIVE ChainNode(_, _)
ChainNode(decls, k) ==
    Obj((IF Len(decls[k]) > 0 THEN << <<K_params, Arr(decls[k])>> >>
         ELSE <<>>)
        \o (IF k < Len(decls)
            THEN << <<ChainKeys[k + 1], ChainNode(decls, k + 1)>> >>
            ELSE <<>>))

ChainSchema(decls) == Obj(<< <<ChainKeys[1], ChainNode(decls, 1)>> >>)

ChainSchemas ==
    {ChainSchema(decls) :
        decls \in UNION {[1..n -> ChainDecls] : n \in 1..MaxDepth}}

Schemas == FixtureSchemas \cup ChainSchemas

ScopeLists == {<<>>, <<Sc_admin>>, <<Sc_admin, Sc_public>>}

\* values: plain ones, the empty string, and one made of the separators
ParamValues == {<<"1">>, <<"2">>, <<>>, <<"/", ":">>}

\* the parameter names a schema declares anywhere
RECURSIVE DeclaredNames(_)
DeclaredNames(sch) ==
    Range(getParams(sch))
        \cup UNION {DeclaredNames(Get(sch, key)) :
                        key \in Range(getChildKeys(sch))}

\* the objects with the given names listed in every order, with every value
ParamMaps(names) ==
    UNION {
        {m \in [1..n -> names \X ParamValues] :
            \A i, j \in 1..n : i # j => m[i][1] # m[j][1]} :
        n \in 0..(IF MaxParams < Cardinality(names) THEN MaxParams
                  ELSE Cardinality(names))}

\* the argument lists of a method call: no argument, or one object
ArgLists(sch) == {<<>>} \cup {<<m>> : m \in ParamMaps(DeclaredNames(sch))}

\* o.k1.k2...: the object reached from o along the keys of at
RECURSIVE Navigate(_, _)
Navigate(o, at) ==
    IF Len(at) = 0 THEN o ELSE Navigate(Get(o, Head(at)), Tail(at))

\* the key paths of o that reach an object
RECURSIVE ObjectPaths(_)
ObjectPaths(o) ==
    {<<>>} \cup
    UNION {{<<key>> \o rest : rest \in ObjectPaths(Get(o, key))} :
            key \in {k \in Range(ObjectKeys(o)) : Get(o, k).t = "obj"}}

\* node[key] is a function
HasMethod(node, key) == Has(node, key) /\ Get(node, key).t = "fn"

-----------------------------------------------------------------------------
(* The facade under test, driven as the integration suite drives it:       *)
(* beforeEach clears the three mocks, then the test calls one method of    *)
(* one node.                                                               *)

NoCall ==
    [op |-> "none", at |-> <<>>, args |-> <<>>, raised |-> FALSE,
     outcome |-> "none"]
NoRet == [fn |-> "none", args |-> <<>>, value |-> <<>>]

\* the test builds one facade only
NoSecond == [schema |-> Null, scopes |-> <<>>, cache |-> Null]

Init ==
    /\ schema \in Schemas
    /\ scopes \in ScopeLists
    /\ cache = createCache(schema, scopes)
    /\ mockCacheTag = <<>>
    /\ mockRevalidateTag = <<>>
    /\ mockUpdateTag = <<>>
    /\ call = NoCall
    /\ ret = NoRet
    /\ second = NoSecond
    /\ history = <<>>

\* mock.mockClear() of the three mocks, before each test
BeforeEach ==
    /\ call # NoCall
    /\ mockCacheTag' = <<>>
    /\ mockRevalidateTag' = <<>>
    /\ mockUpdateTag' = <<>>
    /\ call' = NoCall
    /\ UNCHANGED <<schema, scopes, cache, ret, second, history>>

\* the test's call node.method(...p)
\* variant: the method catches what the primitive throws
Completion_Swallowed(throws) == "returned"

\* how a method ends: its last statement is the call of the primitive, in
\* no try block, so what the primitive throws leaves the method
Completion(throws) == IF throws THEN "threw" ELSE "returned"

\* the test's call node.method(...p); throws: the primitive raises
Invoke(op, key, at, p, throws) ==
    LET node == Navigate(cache, at)
        made == Apply(Get(node, key), p)
    IN  /\ HasMethod(node, key)
        /\ mockCacheTag' =
                IF made.prim = "cacheTag"
                THEN Append(mockCacheTag, made.args) ELSE mockCacheTag
        /\ mockRevalidateTag' =
                IF made.prim = "revalidateTag"
                THEN Append(mockRevalidateTag, made.args)
                ELSE mockRevalidateTag
        /\ mockUpdateTag' =
                IF made.prim = "updateTag"
                THEN Append(mockUpdateTag, made.args) ELSE mockUpdateTag
        /\ call' = [op |-> op, at |-> at, args |-> p, raised |-> throws,
                    outcome |-> Completion(throws)]
        /\ UNCHANGED <<schema, scopes, cache, ret, second, history>>

CacheTag ==
    /\ call = NoCall
    /\ \E at \in ObjectPaths(cache), p \in ArgLists(schema),
          throws \in BOOLEAN :
            Invoke("cacheTag", K_cacheTag, at, p, throws)

RevalidateTag ==
    /\ call = NoCall
    /\ \E at \in ObjectPaths(cache), p \in ArgLists(schema),
          throws \in BOOLEAN :
            Invoke("revalidateTag", K_revalidateTag, at, p, throws)

UpdateTag ==
    /\ call = NoCall
    /\ \E at \in ObjectPaths(cache), p \in ArgLists(schema),
          throws \in BOOLEAN :
            Invoke("updateTag", K_updateTag, at, p, throws)

Next == BeforeEach \/ CacheTag \/ RevalidateTag \/ UpdateTag

Spec == Init /\ [][Next]_vars

-----------------------------------------------------------------------------
(* The exported functions of tag-builder.ts called directly, as the unit   *)
(* suite calls them: the arguments are drawn at the start, then one        *)
(* function is applied to them.                                            *)

Paths == UNION {[1..n -> {S_users, S_byId}] : n \in 0..MaxDepth}

ScopePaths == {<<>>, <<Sc_admin>>}

ParamsBySegmentMaps ==
    UNION {[idx -> {<<"y", "x">>}] : idx \in SUBSET (0..(MaxDepth - 1))}

InitTagBuilder ==
    /\ schema = Obj(<<>>)
    /\ scopes = <<>>
    /\ cache = createCache(schema, scopes)
    /\ mockCacheTag = <<>>
    /\ mockRevalidateTag = <<>>
    /\ mockUpdateTag = <<>>
    /\ call = NoCall
    /\ second = NoSecond
    /\ history = <<>>
    /\ \E path \in Paths, scopePath \in ScopePaths,
          paramsBySegment \in ParamsBySegmentMaps,
          params \in ParamMaps({"x", "y"}) :
            ret = [fn |-> "none",
                   args |-> [path |-> path, scopePath |-> scopePath,
                             paramsBySegment |-> paramsBySegment,
                             params |-> params],
                   value |-> <<>>]

Return(fn, value) ==
    /\ ret.fn = "none"
    /\ ret' = [ret EXCEPT !.fn = fn, !.value = value]
    /\ UNCHANGED <<schema, scopes, cache, mockCacheTag, mockRevalidateTag,
                   mockUpdateTag, call, second, history>>

BuildTag == Return("buildTag", buildTag(ret.args.path, ret.args.params))

BuildAncestorTags ==
    Return("buildAncestorTags", buildAncestorTags(ret.args.path))

BuildScopedTag ==
    /\ Len(ret.args.scopePath) > 0
    /\ Return("buildScopedTag",
              buildScopedTag(ret.args.scopePath[1],
                             buildTag(ret.args.path, ret.args.params)))

BuildAllTags ==
    Return("buildAllTags",
           buildAllTags(ret.args.path, ret.args.scopePath, ret.args.params))

BuildUnscopedTags ==
    Return("buildUnscopedTags",
           buildUnscopedTags(ret.args.path, ret.args.params))

BuildTagWithEmbeddedParams ==
    Return("buildTagWithEmbeddedParams",
           buildTagWithEmbeddedParams(ret.args.path,
                ret.args.paramsBySegment, ret.args.params))

BuildAncestorTagsWithEmbeddedParams ==
    Return("buildAncestorTagsWithEmbeddedParams",
           buildAncestorTagsWithEmbeddedParams(ret.args.path,
                ret.args.paramsBySegment, ret.args.params))

BuildAllTagsWithEmbeddedParams ==
    Return("buildAllTagsWithEmbeddedParams",
           buildAllTagsWithEmbeddedParams(ret.args.path, ret.args.scopePath,
                ret.args.paramsBySegment, ret.args.params))

BuildUnscopedTagsWithEmbeddedParams ==
    Return("buildUnscopedTagsWithEmbeddedParams",
           buildUnscopedTagsWithEmbeddedParams(ret.args.path,
                ret.args.paramsBySegment, ret.args.params))

NextTagBuilder ==
    \/ BuildTag
    \/ BuildAncestorTags
    \/ BuildScopedTag
    \/ BuildAllTags
    \/ BuildUnscopedTags
    \/ BuildTagWithEmbeddedParams
    \/ BuildAncestorTagsWithEmbeddedParams
    \/ BuildAllTagsWithEmbeddedParams
    \/ BuildUnscopedTagsWithEmbeddedParams

SpecTagBuilder == InitTagBuilder /\ [][NextTagBuilder]_vars

-----------------------------------------------------------------------------
(* A test that builds two facades and calls several methods without the    *)
(* mocks being cleared in between: a first call, possibly another call on  *)
(* any node of either facade, then the first call made again.              *)

SeqSchemas == {simpleSchema, hierarchicalSchema}

\* no argument, or every declared name of the schema given the same value
SeqArgLists(sch) ==
    LET names == DeclaredNames(sch)
        order == CHOOSE f \in [1..Cardinality(names) -> names] :
                    \A i, j \in 1..Cardinality(names) : i # j => f[i] # f[j]
    IN  {<<>>} \cup {<<[i \in 1..Cardinality(names) |-> <<order[i], v>>]>> :
                        v \in {<<"1">>, <<"2">>}}

InitSequence ==
    /\ schema \in SeqSchemas
    /\ scopes = <<Sc_admin>>
    /\ cache = createCache(schema, scopes)
    /\ \E sch \in SeqSchemas :
            second = [schema |-> sch, scopes |-> <<Sc_admin>>,
                      cache |-> createCache(sch, <<Sc_admin>>)]
    /\ mockCacheTag = <<>>
    /\ mockRevalidateTag = <<>>
    /\ mockUpdateTag = <<>>
    /\ call = NoCall
    /\ ret = NoRet
    /\ history = <<>>

\* the facade and the schema a call of the sequence addresses
FacadeOf(which) == IF which = 1 THEN cache ELSE second.cache
SchemaOf(which) == IF which = 1 THEN schema ELSE second.schema

\* facade.k1.k2.method(...p), the mocks keeping what they already hold
SeqInvoke(which, key, at, p, again) ==
    LET node == Navigate(FacadeOf(which), at)
        made == Apply(Get(node, key), p)
    IN  /\ HasMethod(node, key)
        /\ mockCacheTag' =
                IF made.prim = "cacheTag"
                THEN Append(mockCacheTag, made.args) ELSE mockCacheTag
        /\ mockRevalidateTag' =
                IF made.prim = "revalidateTag"
                THEN Append(mockRevalidateTag, made.args)
                ELSE mockRevalidateTag
        /\ mockUpdateTag' =
                IF made.prim = "updateTag"
                THEN Append(mockUpdateTag, made.args) ELSE mockUpdateTag
        /\ history' = Append(history,
                [which |-> which, key |-> key, at |-> at, args |-> p,
                 sent |-> made, again |-> again])
        /\ UNCHANGED <<schema, scopes, cache, call, ret, second>>

AnyCall ==
    \E which \in {1, 2} :
        \E key \in {K_cacheTag, K_revalidateTag, K_updateTag},
           at \in ObjectPaths(FacadeOf(which)),
           p \in SeqArgLists(SchemaOf(which)) :
            SeqInvoke(which, key, at, p, FALSE)

FirstCall == history = <<>> /\ AnyCall

LaterCall == Len(history) = 1 /\ AnyCall

RepeatCall ==
    /\ Len(history) \in {1, 2}
    /\ ~history[Len(history)].again
    /\ SeqInvoke(history[1].which, history[1].key, history[1].at,
                 history[1].args, TRUE)

NextSequence == FirstCall \/ LaterCall \/ RepeatCall

SpecSequence == InitSequence /\ [][NextSequence]_vars

-----------------------------------------------------------------------------
(* createCache called on schema values of every kind                       *)

\* values found where a schema node is expected
OddValues ==
    {Null, Num, Str(<<"s">>), Arr(<<>>), Arr(<<"a">>), EmptyLeaf,
     LeafWith(<<"id">>),
     Obj(<< <<K_params, Str(<<"i", "d">>)>> >>),
     Obj(<< <<K_params, Null>> >>),
     Obj(<< <<K_params, Arr(<<>>)>>, <<S_list, Null>> >>)}

OddSchemas ==
    {Obj(<<>>)}
        \cup OddValues
        \cup {Obj(<< <<S_users, v>> >>) : v \in OddValues}
        \cup {Obj(<< <<S_users, Obj(<< <<S_docs, v>>, <<S_byId, w>> >>)>> >>) :
                v \in OddValues, w \in OddValues}

\* scope lists, some naming a scope like a resource or like a field of
\* the root
CollidingScopeLists ==
    ScopeLists \cup {<<S_users>>, <<Sc_admin, S_users>>, <<K_revalidateTag>>,
                     <<K_updateTag>>, <<K_path>>}

InitCreateCache ==
    /\ schema \in OddSchemas
    /\ scopes \in CollidingScopeLists
    /\ cache = Null
    /\ mockCacheTag = <<>>
    /\ mockRevalidateTag = <<>>
    /\ mockUpdateTag = <<>>
    /\ call = NoCall
    /\ ret = NoRet
    /\ second = NoSecond
    /\ history = <<>>

\* const cache = createCache(schema, scopes)
CreateCache ==
    /\ ret.fn = "none"
    /\ ret' = [fn |-> "createCache",
               args |-> <<schema, scopes>>,
               value |-> [raised |-> createCache_Throws(schema, scopes),
                          visits |-> createCache_Visits(schema, scopes)]]
    /\ cache' = IF createCache_Throws(schema, scopes) THEN Null
                ELSE createCache(schema, scopes)
    /\ UNCHANGED <<schema, scopes, mockCacheTag, mockRevalidateTag,
                   mockUpdateTag, call, second, history>>

NextCreateCache == CreateCache

SpecCreateCache == InitCreateCache /\ [][NextCreateCache]_vars

-----------------------------------------------------------------------------
(* Vocabulary of the properties                                            *)

\* the node the test called, and what a method of a node would send
CalledNode == Navigate(cache, call.at)
WouldSend(at, key, p) == Apply(Get(Navigate(cache, at), key), p)

\* the tag revalidateTag / updateTag would send from the node at `at`
RevalidateTagOf(at, p) == WouldSend(at, K_revalidateTag, p).args[1]
UpdateTagOf(at, p) == WouldSend(at, K_updateTag, p).args[1]

IsLeafAt(at) == HasMethod(Navigate(cache, at), K_cacheTag)

\* the tree a node belongs to, read off its revalidateTag closure
ScopeOf(node) ==
    LET fn == Get(node, K_revalidateTag)
    IN  IF fn.impl[1] \in {"buildLeafNodeImpl", "buildBranchNodeImpl"}
        THEN fn.scopePath ELSE <<>>
ResourcePathOf(node) == Get(node, K_revalidateTag).resourcePath

\* the schema node at a key path, and the names it declares
RECURSIVE SchemaAt(_, _)
SchemaAt(sch, path) ==
    IF Len(path) = 0 THEN sch ELSE SchemaAt(Get(sch, Head(path)), Tail(path))
DeclaredOn(path, k) == getParams(SchemaAt(schema, SubSeq(path, 1, k)))

\* the names accumulated along a path: those of its segments, root first
AccumulatedNames(path) ==
    UNION {Range(DeclaredOn(path, k)) : k \in 1..Len(path)}

Supplies(params, name) == \E i \in 1..Len(params) : params[i][1] = name
ValueOf(params, name) ==
    params[CHOOSE i \in 1..Len(params) : params[i][1] = name][2]
SuppliedNames(params) == {params[i][1] : i \in 1..Len(params)}

\* the values params supplies for names, in the order of names
GivenValues(names, params) ==
    LET have == SelectSeq(names, LAMBDA nm : Supplies(params, nm))
    IN  [i \in 1..Len(have) |-> ValueOf(params, have[i])]

\* one segment as the embedded format renders it
RenderedSegment(segment, names, params) ==
    IF Len(GivenValues(names, params)) = 0 THEN segment
    ELSE segment \o Colon \o join(GivenValues(names, params), Colon)

\* the first m segments of a resource path of the schema, rendered
RenderedPrefix(path, m, params) ==
    join([k \in 1..m |->
            RenderedSegment(path[k], DeclaredOn(path, k), params)], Slash)

\* the lists with the entries of params in every order
Reorderings(params) ==
    {[i \in 1..Len(params) |-> params[f[i]]] :
        f \in {g \in [1..Len(params) -> 1..Len(params)] :
                \A i, j \in 1..Len(params) : i # j => g[i] # g[j]}}

\* the objects that keep some of the entries of params
SubMaps(params) ==
    {m \in ParamMaps(SuppliedNames(params)) :
        \A i \in 1..Len(m) : ValueOf(params, m[i][1]) = m[i][2]}

-----------------------------------------------------------------------------
(* Properties of the facade (Spec)                                         *)

\* C1: cacheTag(V) on a leaf of scope s with resource path p of n segments
\* registers exactly 2n+1 tags: the full scoped tag, the scoped ancestors
\* from longest to shortest ending with s alone, the full unscoped tag, the
\* unscoped ancestors from longest to shortest; on the unscoped leaf only
\* the n tags of the unscoped half.
C1_RegisteredList ==
    call.op = "cacheTag" =>
        LET node == CalledNode
            s == ScopeOf(node)
            path == ResourcePathOf(node)
            n == Len(path)
            V == OrEmpty(call.args)
            unscopedHalf == [j \in 1..n |-> RenderedPrefix(path, n + 1 - j, V)]
            scopedHalf ==
                [j \in 1..(n + 1) |->
                    IF j = n + 1 THEN s[1]
                    ELSE s[1] \o Slash \o RenderedPrefix(path, n + 1 - j, V)]
        IN  /\ Len(mockCacheTag) = 1
            /\ mockCacheTag[1] =
                    IF Len(s) = 0 THEN unscopedHalf
                    ELSE scopedHalf \o unscopedHalf
            /\ Len(mockCacheTag[1]) = IF Len(s) = 0 THEN n ELSE 2 * n + 1

C1_Witness ==
    /\ call.op = "cacheTag"
    /\ Len(ScopeOf(CalledNode)) = 1
    /\ Len(ResourcePathOf(CalledNode)) = 3
    /\ Len(mockCacheTag[1]) = 7
    /\ Len(OrEmpty(call.args)) = 2
    /\ \E i \in 1..7 : \E j \in 1..Len(mockCacheTag[1][i]) :
            mockCacheTag[1][i][j] = ":"

\* C2: revalidateTag(P) sends one tag with the profile "max", updateTag(P)
\* sends the same tag to the immediate-expire primitive, and on a leaf that
\* tag is the first of the list cacheTag(P) registers.
C2_OperationsAgree ==
    /\ call.op = "revalidateTag" =>
        /\ Len(mockRevalidateTag) = 1
        /\ Len(mockRevalidateTag[1]) = 2
        /\ mockRevalidateTag[1][2] = Max
        /\ mockRevalidateTag[1][1] = UpdateTagOf(call.at, call.args)
    /\ call.op = "updateTag" =>
        /\ Len(mockUpdateTag) = 1
        /\ Len(mockUpdateTag[1]) = 1
        /\ mockUpdateTag[1][1] = RevalidateTagOf(call.at, call.args)
    /\ call.op = "cacheTag" =>
        /\ Len(mockCacheTag) = 1
        /\ mockCacheTag[1][1] = RevalidateTagOf(call.at, call.args)
        /\ mockCacheTag[1][1] = UpdateTagOf(call.at, call.args)

C2_Witness ==
    /\ call.op = "updateTag"
    /\ IsLeafAt(call.at)
    /\ Len(ScopeOf(CalledNode)) = 1
    /\ Cardinality(AccumulatedNames(ResourcePathOf(CalledNode))) = 2
    /\ Len(OrEmpty(call.args)) = 1
    /\ \E j \in 1..Len(mockUpdateTag[1][1]) : mockUpdateTag[1][1][j] = ":"

\* every value of the object is a non-empty string
NonEmptyValues(params) == \A i \in 1..Len(params) : Len(params[i][2]) > 0

\* C3: the tag a proper ancestor branch of a leaf (the scope root included)
\* sends on revalidateTag() / updateTag() with no argument is one of the
\* tags the leaf's cacheTag(V) registered, V complete.
C3_BranchReachesSubtree ==
    (/\ call.op = "cacheTag"
     /\ NonEmptyValues(OrEmpty(call.args))
     /\ SuppliedNames(OrEmpty(call.args))
            = AccumulatedNames(ResourcePathOf(CalledNode))) =>
        LET s == ScopeOf(CalledNode)
            path == ResourcePathOf(CalledNode)
            ancestors ==
                {s \o SubSeq(path, 1, m) :
                    m \in (IF Len(s) = 0 THEN 1 ELSE 0)..(Len(path) - 1)}
        IN  \A b \in ancestors :
                /\ RevalidateTagOf(b, <<>>) \in Range(mockCacheTag[1])
                /\ UpdateTagOf(b, <<>>) \in Range(mockCacheTag[1])

C5_PartialIsPrefixOfRegistered ==
    (/\ call.op = "cacheTag"
     /\ NonEmptyValues(OrEmpty(call.args))
     /\ SuppliedNames(OrEmpty(call.args))
            = AccumulatedNames(ResourcePathOf(CalledNode))) =>
        \A S \in SubMaps(OrEmpty(call.args)) :
            /\ \E r \in Range(mockCacheTag[1]) :
                    IsPrefix(RevalidateTagOf(call.at, <<S>>), r)
            /\ \E r \in Range(mockCacheTag[1]) :
                    IsPrefix(UpdateTagOf(call.at, <<S>>), r)

\* C8: the mapping a node accumulated binds index i exactly to the names
\* the schema node at the prefix p[0..i] declares, when it declares any, and
\* has no other entry; the scoped methods hold it shifted by the scope.
ExpectedBinding(path, shift) ==
    [j \in {k - 1 + shift :
                k \in {i \in 1..Len(path) : Len(DeclaredOn(path, i)) > 0}}
        |-> DeclaredOn(path, j + 1 - shift)]

BindingHeld(fn) ==
    CASE fn.impl[1] = "buildUnscopedBranch" -> fn.newParamsBySegment
      [] fn.impl[1] = "buildUnscopedLeafNodeImpl" -> fn.paramsBySegment
      [] fn.impl = <<"buildLeafNodeImpl", "cacheTag">> -> fn.paramsBySegment
      [] OTHER -> fn.scopedParamsBySegment

ShiftHeld(fn) ==
    IF fn.impl[1] \in {"buildUnscopedBranch", "buildUnscopedLeafNodeImpl"}
        \/ fn.impl = <<"buildLeafNodeImpl", "cacheTag">>
    THEN 0 ELSE Len(fn.scopePath)

C8_BindingsFollowSchema ==
    call.op # "none" =>
        LET node == CalledNode
        IN  \A key \in {K_cacheTag, K_revalidateTag, K_updateTag} :
                HasMethod(node, key) =>
                    LET fn == Get(node, key)
                    IN  BindingHeld(fn)
                            = ExpectedBinding(fn.resourcePath, ShiftHeld(fn))

C8_Witness ==
    /\ call.op = "updateTag"
    /\ IsLeafAt(call.at)
    /\ Len(ScopeOf(CalledNode)) = 1
    /\ Len(ResourcePathOf(CalledNode)) = 3
    /\ DOMAIN Get(CalledNode, K_cacheTag).paramsBySegment = {0, 2}
    /\ DOMAIN Get(CalledNode, K_updateTag).scopedParamsBySegment = {1, 3}
    /\ \E sib \in ObjectPaths(cache) :
            /\ Len(sib) = Len(call.at)
            /\ sib # call.at
            /\ SubSeq(sib, 1, Len(sib) - 1)
                    = SubSeq(call.at, 1, Len(call.at) - 1)

\* C9: for a node with a non-empty resource path, the tag computed in the
\* tree of scope s equals s + "/" + the tag the same node of the unscoped
\* tree computes for the same parameters.
C9_ScopedIsPrefixedUnscoped ==
    call.op # "none" =>
        LET node == CalledNode
            s == ScopeOf(node)[1]
            path == ResourcePathOf(node)
        IN  (Len(ScopeOf(node)) = 1 /\ Len(path) > 0) =>
            /\ call.op = "revalidateTag" =>
                mockRevalidateTag[1][1]
                    = s \o Slash \o RevalidateTagOf(path, call.args)
            /\ call.op = "updateTag" =>
                mockUpdateTag[1][1]
                    = s \o Slash \o UpdateTagOf(path, call.args)
            /\ call.op = "cacheTag" =>
                mockCacheTag[1][1]
                    = s \o Slash
                        \o WouldSend(path, K_cacheTag, call.args).args[1]

C9_Witness ==
    /\ call.op = "revalidateTag"
    /\ Len(ScopeOf(CalledNode)) = 1
    /\ Len(ResourcePathOf(CalledNode)) = 2
    /\ Len(DeclaredOn(ResourcePathOf(CalledNode), 1)) = 2
    /\ Len(GivenValues(DeclaredOn(ResourcePathOf(CalledNode), 1),
                       OrEmpty(call.args))) = 1
    /\ Len(GivenValues(DeclaredOn(ResourcePathOf(CalledNode), 2),
                       OrEmpty(call.args))) = 1

-----------------------------------------------------------------------------
(* Properties of the tag builders (SpecTagBuilder)                         *)

\* the segments of the path of the call, each rendered on its own
RenderedSegments ==
    [k \in 1..Len(ret.args.path) |->
        RenderedSegment(ret.args.path[k],
                        MapGet(ret.args.paramsBySegment, k - 1),
                        ret.args.params)]

\* C6: the list built for a leaf called with at least one value contains
\* the bare scoped full path and the bare unscoped full path.
C6_BarePathsRegistered ==
    (/\ ret.fn \in {"buildAllTags", "buildAllTagsWithEmbeddedParams"}
     /\ Len(ret.args.path) > 0
     /\ Len(ret.args.scopePath) > 0
     /\ NonEmptyValues(ret.args.params)
     /\ IF ret.fn = "buildAllTags" THEN Len(ret.args.params) > 0
        ELSE \E k \in 1..Len(ret.args.path) :
                RenderedSegments[k] # ret.args.path[k]) =>
        /\ join(ret.args.scopePath \o ret.args.path, Slash)
                \in Range(ret.value)
        /\ join(ret.args.path, Slash) \in Range(ret.value)

\* C7: buildTagWithEmbeddedParams renders each segment on its own, the
\* segment name alone or followed by ':' and the supplied values of its
\* names in declaration order joined by ':', joins the segments with '/',
\* and gives the same tag for every order of the caller's entries.
C7_EmbeddedRendering ==
    ret.fn = "buildTagWithEmbeddedParams" =>
        /\ ret.value = join(RenderedSegments, Slash)
        /\ \A reordered \in Reorderings(ret.args.params) :
                buildTagWithEmbeddedParams(ret.args.path,
                    ret.args.paramsBySegment, reordered) = ret.value

C7_Witness ==
    /\ ret.fn = "buildTagWithEmbeddedParams"
    /\ Len(ret.args.path) = 3
    /\ DOMAIN ret.args.paramsBySegment = {0, 2}
    /\ ret.args.params = << <<"x", <<"1">> >>, <<"y", <<"2">> >> >>
    /\ ret.value = <<"u", ":", "2", ":", "1", "/", "b", "/",
                     "u", ":", "2", ":", "1">>

\* C10: the ancestor list of a path of n >= 1 segments has n-1 elements,
\* shortest first, without the empty prefix and without the full path; its
\* i-th element (from 0) joins the first i+1 segments (flat) or the first
\* i+1 rendered segments (embedded) with '/'.
C10_AncestorEnumeration ==
    (/\ ret.fn \in {"buildAncestorTags",
                    "buildAncestorTagsWithEmbeddedParams"}
     /\ Len(ret.args.path) > 0) =>
        LET n == Len(ret.args.path)
            segments == IF ret.fn = "buildAncestorTags" THEN ret.args.path
                        ELSE RenderedSegments
        IN  /\ Len(ret.value) = n - 1
            /\ \A i \in 0..(n - 2) :
                    ret.value[i + 1] = join(SubSeq(segments, 1, i + 1), Slash)
            /\ \A i \in 1..Len(ret.value) :
                    /\ Len(ret.value[i]) > 0
                    /\ ret.value[i] # join(segments, Slash)

C10_Witness ==
    /\ ret.fn = "buildAncestorTagsWithEmbeddedParams"
    /\ Len(ret.args.path) = 3
    /\ Len(ret.value) = 2
    /\ ret.value[1] = <<"u", ":", "2">>
    /\ ret.value[2] = <<"u", ":", "2", "/", "b", ":", "2">>

\* the names bound to the first n segments, ancestors first
RECURSIVE DeclaredAlong(_, _)
DeclaredAlong(paramsBySegment, n) ==
    IF n = 0 THEN <<>>
    ELSE DeclaredAlong(paramsBySegment, n - 1) \o MapGet(paramsBySegment, n - 1)

\* C11: buildTag returns the segments joined by '/', and for a non-empty
\* object appends ':' and the values joined by ':' in the order the names
\* are declared along the path, whatever the order of the caller's entries;
\* an empty object gives the bare joined path.
C11_FlatDeclarationOrder ==
    LET declared == DeclaredAlong(ret.args.paramsBySegment, Len(ret.args.path))
    IN  (/\ ret.fn = "buildTag"
         /\ NonEmptyValues(ret.args.params)
         /\ Len(declared) = Cardinality(Range(declared))
         /\ SuppliedNames(ret.args.params) \in {{}, Range(declared)}) =>
            ret.value =
                IF Len(ret.args.params) = 0 THEN join(ret.args.path, Slash)
                ELSE join(ret.args.path, Slash) \o Colon
                        \o join(GivenValues(declared, ret.args.params), Colon)

-----------------------------------------------------------------------------
(* Further properties of the facade (Spec)                                 *)

\* the key of the method a recorded call invoked
KeyOf(op) ==
    CASE op = "cacheTag" -> K_cacheTag
      [] op = "revalidateTag" -> K_revalidateTag
      [] op = "updateTag" -> K_updateTag

\* no branch of the schema, nor its root, declares parameters
RECURSIVE OnlyLeavesDeclare(_)
OnlyLeavesDeclare(sch) ==
    \/ isLeafNode(sch)
    \/ /\ Len(getParams(sch)) = 0
       /\ \A key \in Range(getChildKeys(sch)) : OnlyLeavesDeclare(Get(sch, key))

\* the names accumulated along the first n segments of a resource path of
\* the schema, ancestors first
RECURSIVE AccumulatedDeclared(_, _)
AccumulatedDeclared(path, n) ==
    IF n = 0 THEN <<>>
    ELSE AccumulatedDeclared(path, n - 1) \o DeclaredOn(path, n)

\* the names of an object in the order it lists them
NamesListed(params) == [i \in 1..Len(params) |-> params[i][1]]

\* what the three mocks hold after the one call `sent` and nothing else
RecordedExactly(sent) ==
    /\ mockCacheTag = IF sent.prim = "cacheTag" THEN <<sent.args>> ELSE <<>>
    /\ mockRevalidateTag =
            IF sent.prim = "revalidateTag" THEN <<sent.args>> ELSE <<>>
    /\ mockUpdateTag = IF sent.prim = "updateTag" THEN <<sent.args>> ELSE <<>>

\* C12: for a schema in which only leaves declare parameters, every node
\* and every complete object listed in declaration order, the calls the
\* cache sends are exactly those of the legacy flat-format cache.
C12_LegacyCallsPreserved ==
    (/\ call.op # "none"
     /\ Len(getParams(schema)) = 0
     /\ OnlyLeavesDeclare(schema)
     /\ LET path == ResourcePathOf(CalledNode)
        IN  NamesListed(OrEmpty(call.args))
                = AccumulatedDeclared(path, Len(path))) =>
        LET legacyNode == Navigate(legacy_createCache(schema, scopes), call.at)
        IN  /\ HasMethod(legacyNode, KeyOf(call.op))
            /\ RecordedExactly(
                    legacy_Apply(Get(legacyNode, KeyOf(call.op)), call.args))

C12_Witness ==
    /\ call.op = "cacheTag"
    /\ Len(getParams(schema)) = 0
    /\ OnlyLeavesDeclare(schema)
    /\ Len(ScopeOf(CalledNode)) = 1
    /\ NamesListed(OrEmpty(call.args)) = <<"ownerId", "slug">>
    /\ AccumulatedDeclared(ResourcePathOf(CalledNode), 2)
            = <<"ownerId", "slug">>
    /\ NonEmptyValues(OrEmpty(call.args))
    /\ Len(mockCacheTag[1]) = 5

\* the key path of the node of the recorded call in the tree of scope s
SameNodeUnder(s) == <<s>> \o Tail(call.at)

\* C13: the tag a node sends under scope s1 differs from the tag the same
\* node sends for the same object under any other scope s2 of the cache,
\* and the unscoped half of the list cacheTag registers is the same under
\* both.
C13_ScopesPartitionTags ==
    call.op # "none" =>
        LET node == CalledNode
            s == ScopeOf(node)
            n == Len(ResourcePathOf(node))
        IN  Len(s) = 1 =>
            \A i \in 1..Len(scopes) :
              scopes[i] # s[1] =>
                LET other == WouldSend(SameNodeUnder(scopes[i]),
                                       KeyOf(call.op), call.args).args
                IN  /\ call.op = "revalidateTag" =>
                            mockRevalidateTag[1][1] # other[1]
                    /\ call.op = "updateTag" => mockUpdateTag[1][1] # other[1]
                    /\ call.op = "cacheTag" =>
                        /\ Len(other) = Len(mockCacheTag[1])
                        /\ \A j \in 1..(n + 1) : mockCacheTag[1][j] # other[j]
                        /\ \A j \in (n + 2)..(2 * n + 1) :
                                mockCacheTag[1][j] = other[j]

C13_Witness ==
    /\ call.op = "cacheTag"
    /\ Len(scopes) = 2
    /\ ScopeOf(CalledNode) = <<Sc_public>>
    /\ Len(ResourcePathOf(CalledNode)) = 3
    /\ Len(OrEmpty(call.args)) = 2
    /\ NonEmptyValues(OrEmpty(call.args))
    /\ mockCacheTag[1][3] # WouldSend(SameNodeUnder(Sc_admin), K_cacheTag,
                                      call.args).args[3]
    /\ mockCacheTag[1][5] = WouldSend(SameNodeUnder(Sc_admin), K_cacheTag,
                                      call.args).args[5]

\* the keys of a schema node other than the parameter declaration
OtherKeys(sn) == SelectSeq(ObjectKeys(sn), LAMBDA k : k # K_params)

\* the keys of node that hold a function
MethodsOf(node) == {k \in Range(ObjectKeys(node)) : Get(node, k).t = "fn"}

\* C14: the built node at a key path mirrors the schema node at that path:
\* no key other than the parameter declaration gives a leaf with cacheTag,
\* revalidateTag and updateTag; otherwise a branch with revalidateTag and
\* updateTag, no cacheTag, and one field per child key holding the built
\* node of that child in the same tree.
C14_TreeMirrorsSchema ==
    call.op # "none" =>
        LET node == CalledNode
            path == ResourcePathOf(node)
            sn == SchemaAt(schema, path)
            fields == Range(ObjectKeys(node)) \ {K_path}
            mirrored(k) ==
                LET child == Get(node, k)
                IN  /\ Has(node, k)
                    /\ child.t = "obj"
                    /\ HasMethod(child, K_revalidateTag)
                    /\ ResourcePathOf(child) = Append(path, k)
                    /\ ScopeOf(child) = ScopeOf(node)
        IN  sn.t = "obj" =>
            IF Len(path) > 0 /\ Len(OtherKeys(sn)) = 0
            THEN /\ fields = {K_cacheTag, K_revalidateTag, K_updateTag}
                 /\ MethodsOf(node) = fields
            ELSE /\ MethodsOf(node) = {K_revalidateTag, K_updateTag}
                 /\ ~Has(node, K_cacheTag)
                 /\ fields \ MethodsOf(node) =
                        Range(OtherKeys(sn))
                            \cup (IF Len(call.at) = 0 THEN Range(scopes)
                                  ELSE {})
                 /\ \A k \in Range(OtherKeys(sn)) :
                        Get(sn, k).t = "obj" => mirrored(k)

C14_Witness ==
    /\ call.op = "revalidateTag"
    /\ Len(ScopeOf(CalledNode)) = 1
    /\ Len(ResourcePathOf(CalledNode)) = 2
    /\ Len(OtherKeys(SchemaAt(schema, ResourcePathOf(CalledNode)))) = 2
    /\ \E k \in Range(ObjectKeys(CalledNode)) :
            /\ Get(CalledNode, k).t = "obj"
            /\ HasMethod(Get(CalledNode, k), K_cacheTag)
            /\ Len(getParams(Get(SchemaAt(schema, ResourcePathOf(CalledNode)),
                                 k))) = 1

\* C15: a schema child that is not an object (null, a string, a number) is
\* classified as a leaf without parameters, and its built node is a leaf
\* whose cacheTag registers the bare-path tags of the node.
C15_NonObjectChildIsLeaf ==
    (call.op # "none"
        /\ ~IsObject(SchemaAt(schema, ResourcePathOf(CalledNode)))) =>
        LET path == ResourcePathOf(CalledNode)
            s == ScopeOf(CalledNode)
            n == Len(path)
            bare(m) == join(SubSeq(path, 1, m), Slash)
            unscopedHalf == [j \in 1..n |-> bare(n + 1 - j)]
            scopedHalf ==
                [j \in 1..(n + 1) |->
                    IF j = n + 1 THEN s[1]
                    ELSE s[1] \o Slash \o bare(n + 1 - j)]
        IN  /\ isLeafNode(SchemaAt(schema, path))
            /\ Len(getParams(SchemaAt(schema, path))) = 0
            /\ HasMethod(CalledNode, K_cacheTag)
            /\ WouldSend(call.at, K_cacheTag, <<>>).args =
                    IF Len(s) = 0 THEN unscopedHalf
                    ELSE scopedHalf \o unscopedHalf

\* String(undefined)
Undefined == <<"u", "n", "d", "e", "f", "i", "n", "e", "d">>

\* sub occurs in t
Contains(t, sub) ==
    \E i \in 1..(Len(t) - Len(sub) + 1) : SubSeq(t, i, i + Len(sub) - 1) = sub

\* the values of names, a missing one coerced to text
CoercedValues(names, params) ==
    [i \in 1..Len(names) |->
        IF Supplies(params, names[i]) THEN ValueOf(params, names[i])
        ELSE Undefined]

\* the first m segments of a resource path with every declared value
\* rendered, a missing one as its coercion to text
CoercedPrefix(path, m, params) ==
    join([k \in 1..m |->
            IF Len(DeclaredOn(path, k)) = 0 THEN path[k]
            ELSE path[k] \o Colon
                    \o join(CoercedValues(DeclaredOn(path, k), params), Colon)],
         Slash)

\* cacheTag was called on a leaf without a value for some accumulated name
IncompleteCacheTag ==
    /\ call.op = "cacheTag"
    /\ AccumulatedNames(ResourcePathOf(CalledNode))
            \ SuppliedNames(OrEmpty(call.args)) # {}

\* C16 as stated: a cacheTag call that lacks values is carried out and
\* each missing value appears in the registered tags as the text
\* 'undefined' at the position of its parameter.
C16_MissingRenderedAsText ==
    IncompleteCacheTag =>
        LET path == ResourcePathOf(CalledNode)
            n == Len(path)
            tags == mockCacheTag[1]
        IN  /\ Len(mockCacheTag) = 1
            /\ tags[Len(tags) + 1 - n] = CoercedPrefix(path, n, OrEmpty(call.args))

\* C16 as amended: a cacheTag call that lacks values is carried out, each
\* missing value is left out of its segment (the segment is bare when none
\* of its values is supplied), and no registered tag contains 'undefined'.
C16_MissingValuesOmitted ==
    IncompleteCacheTag =>
        LET path == ResourcePathOf(CalledNode)
            n == Len(path)
            tags == mockCacheTag[1]
        IN  /\ Len(mockCacheTag) = 1
            /\ tags[Len(tags) + 1 - n]
                    = RenderedPrefix(path, n, OrEmpty(call.args))
            /\ \A j \in 1..Len(tags) : ~Contains(tags[j], Undefined)

C16_Witness ==
    /\ IncompleteCacheTag
    /\ Len(ScopeOf(CalledNode)) = 1
    /\ NamesListed(OrEmpty(call.args)) = <<"slug">>
    /\ DeclaredOn(ResourcePathOf(CalledNode), 2) = <<"ownerId", "slug">>
    /\ mockCacheTag[1][1] = <<"A", "/", "w", "/", "b", ":", "2">>

\* the calls the three mocks hold, all together
Invocations == Len(mockCacheTag) + Len(mockRevalidateTag) + Len(mockUpdateTag)

PathField(at) == Get(Navigate(cache, at), K_path)

\* C19: the path field of the node reached along the keys `at` is the
\* '/'-join of those keys (the scope name first in a scoped tree, nothing
\* but the resource keys in the unscoped tree, the scope name alone at a
\* scope root); it is the same before and after a call and holds none of
\* the values the call was given.
C19_PathFieldIsJoinedKeys ==
    /\ call = NoCall =>
        \A at \in ObjectPaths(cache) :
            /\ Has(Navigate(cache, at), K_path)
            /\ PathField(at) = Str(join(at, Slash))
    /\ call # NoCall =>
        LET node == CalledNode
            field == PathField(call.at)
        IN  /\ field = Str(join(call.at, Slash))
            /\ field.s = join(ScopeOf(node) \o ResourcePathOf(node), Slash)
            /\ \A i \in 1..Len(OrEmpty(call.args)) :
                Len(OrEmpty(call.args)[i][2]) > 0 =>
                    ~Contains(field.s, OrEmpty(call.args)[i][2])

C19_Witness ==
    /\ call.op = "revalidateTag"
    /\ call.at = <<Sc_admin, S_users, S_byId>>
    /\ call.args = << << <<"id", <<"1">> >> >> >>
    /\ PathField(call.at) = Str(<<"A", "/", "u", "/", "b">>)
    /\ PathField(<<Sc_admin, S_users>>) = Str(<<"A", "/", "u">>)
    /\ PathField(<<Sc_admin>>) = Str(<<"A">>)
    /\ PathField(<<S_users, S_byId>>) = Str(<<"u", "/", "b">>)
    /\ Len(mockRevalidateTag) = 1
    /\ mockRevalidateTag[1][1] # PathField(call.at).s

\* the tag the recorded revalidateTag / updateTag call sent
TagSent ==
    IF call.op = "revalidateTag" THEN mockRevalidateTag[1][1]
    ELSE mockUpdateTag[1][1]

\* C20: revalidateTag or updateTag called with no argument on a branch
\* sends the '/'-join of the keys that reach the branch (the scope name
\* first; the scope name alone at a scope root) and the text "root" at the
\* facade root; whatever the argument, the tag a branch sends is not the
\* empty string.
C20_BareBranchTag ==
    call.op \in {"revalidateTag", "updateTag"} =>
        LET node == CalledNode
        IN  ~HasMethod(node, K_cacheTag) =>
            /\ Len(mockRevalidateTag) + Len(mockUpdateTag) = 1
            /\ Len(TagSent) > 0
            /\ call.args = <<>> =>
                /\ TagSent = IF Len(call.at) = 0 THEN <<"r", "o", "o", "t">>
                             ELSE join(call.at, Slash)
                /\ Len(ScopeOf(node)) = 1 =>
                    TagSent = join(ScopeOf(node) \o ResourcePathOf(node),
                                   Slash)

C20_Witness ==
    /\ call.op = "revalidateTag"
    /\ call.at = <<>>
    /\ call.args = <<>>
    /\ Len(scopes) = 2
    /\ mockRevalidateTag = << <<Root, Max>> >>
    /\ <<Sc_admin, S_users>> \in ObjectPaths(cache)
    /\ UpdateTagOf(<<Sc_admin>>, <<>>) = <<"A">>
    /\ RevalidateTagOf(<<Sc_admin, S_users>>, <<>>) = <<"A", "/", "u">>
    /\ RevalidateTagOf(<<S_users>>, <<>>) = <<"u">>

-----------------------------------------------------------------------------
(* Further properties of the tag builders (SpecTagBuilder)                 *)

\* the characters a list of values takes when each follows a ':'
RECURSIVE SeparatedLength(_)
SeparatedLength(values) ==
    IF Len(values) = 0 THEN 0
    ELSE 1 + Len(Head(values)) + SeparatedLength(Tail(values))

\* the characters the supplied values of the first n segments take
RECURSIVE EmbeddedValuesLength(_)
EmbeddedValuesLength(n) ==
    IF n = 0 THEN 0
    ELSE EmbeddedValuesLength(n - 1)
            + SeparatedLength(GivenValues(MapGet(ret.args.paramsBySegment, n - 1),
                                          ret.args.params))

\* the values of an object in the order it lists them
ValuesListed(params) == [i \in 1..Len(params) |-> params[i][2]]

\* C18: both formats embed the values verbatim: the tag is the joined path
\* plus, for each supplied value, a ':' and the value unchanged, whatever
\* characters it holds; a supplied empty string still gets its ':'.
C18_ValuesVerbatim ==
    /\ (ret.fn = "buildTag" /\ Len(ret.args.params) > 0) =>
        /\ ret.value = join(ret.args.path, Slash) \o Colon
                        \o join(ValuesListed(ret.args.params), Colon)
        /\ Len(ret.value) = Len(join(ret.args.path, Slash))
                            + SeparatedLength(ValuesListed(ret.args.params))
    /\ ret.fn = "buildTagWithEmbeddedParams" =>
        /\ Len(ret.value) = Len(join(ret.args.path, Slash))
                            + EmbeddedValuesLength(Len(ret.args.path))
        /\ \A k \in 1..Len(ret.args.path) :
            LET given == GivenValues(MapGet(ret.args.paramsBySegment, k - 1),
                                     ret.args.params)
                upTo(m) == Len(join(SubSeq(ret.args.path, 1, m), Slash))
                                + EmbeddedValuesLength(m)
                from == IF k = 1 THEN 1 ELSE upTo(k - 1) + 2
            IN  SubSeq(ret.value, from, upTo(k)) =
                    IF Len(given) = 0 THEN ret.args.path[k]
                    ELSE ret.args.path[k] \o Colon \o join(given, Colon)

C18_Witness ==
    /\ ret.fn = "buildTagWithEmbeddedParams"
    /\ ret.args.params = << <<"x", <<>> >>, <<"y", <<"/", ":">> >> >>
    /\ ret.args.path = <<S_users, S_byId>>
    /\ DOMAIN ret.args.paramsBySegment = {0}
    /\ ret.value = <<"u", ":", "/", ":", ":", "/", "b">>

-----------------------------------------------------------------------------
(* Properties of the accumulated mapping and of construction (Spec)        *)

\* the mapping the node at a key path accumulated, by resource index
NodeBinding(at) ==
    LET fn == Get(Navigate(cache, at), K_revalidateTag)
    IN  ShiftParamsBySegment(BindingHeld(fn), 0 - ShiftHeld(fn))

\* the indexes at which a mapping binds a name
BoundAt(m, name) == {k \in DOMAIN m : name \in Range(m[k])}

\* C21: in the mapping of the called node no name is bound at two segment
\* indexes.
C21_NameBoundOnce ==
    call.op # "none" =>
        \A name \in AccumulatedNames(ResourcePathOf(CalledNode)) :
            Cardinality(BoundAt(NodeBinding(call.at), name)) <= 1

\* what the descent does keep: a name is bound at exactly the segment
\* indexes whose schema node declares it, and every index an ancestor of
\* the node has bound is bound to the same names in the node
DescentKeepsBindings ==
    call.op # "none" =>
        LET path == ResourcePathOf(CalledNode)
            m == NodeBinding(call.at)
        IN  /\ \A name \in AccumulatedNames(path) :
                BoundAt(m, name)
                    = {k - 1 : k \in {i \in 1..Len(path) :
                                        name \in Range(DeclaredOn(path, i))}}
            /\ \A n \in 0..(Len(call.at) - 1) :
                LET above == NodeBinding(SubSeq(call.at, 1, n))
                IN  \A k \in DOMAIN above :
                        k \in DOMAIN m /\ m[k] = above[k]

\* the argument list p without the entry of a name, and with the name
\* given the value v
Without(p, name) ==
    IF Len(p) = 0 THEN <<>>
    ELSE <<SelectSeq(p[1], LAMBDA e : e[1] # name)>>
WithValue(p, name, v) == <<Append(OrEmpty(Without(p, name)), <<name, v>>)>>

\* what the called method sends when called with the argument list p
CalledWith(p) == Apply(Get(CalledNode, KeyOf(call.op)), p)

\* C22: a name the schema root declares (and no segment of the node's path
\* declares) is bound at no index of the node's mapping; the call recorded
\* is the one the method makes without that name and with any other value
\* for it; a root of a tree sends "root" or its scope name whatever it is
\* given.
C22_RootParamsUnbound ==
    call.op # "none" =>
        LET node == CalledNode
            method == Get(node, KeyOf(call.op))
        IN  /\ \A r \in Range(getParams(schema))
                            \ AccumulatedNames(ResourcePathOf(node)) :
                /\ BoundAt(NodeBinding(call.at), r) = {}
                /\ RecordedExactly(Apply(method, Without(call.args, r)))
                /\ \A v \in ParamValues :
                    RecordedExactly(Apply(method, WithValue(call.args, r, v)))
            /\ Len(ResourcePathOf(node)) = 0 =>
                /\ mockCacheTag = <<>>
                /\ TagSent = IF Len(ScopeOf(node)) = 0 THEN Root
                             ELSE ScopeOf(node)[1]

C22_Witness ==
    /\ call.op = "cacheTag"
    /\ schema = rootParamsSchema
    /\ call.at = <<Sc_admin, S_users, S_byId>>
    /\ call.args = << << <<"tenant", <<"1">> >>, <<"id", <<"2">> >> >> >>
    /\ mockCacheTag[1][1] = <<"A", "/", "u", "/", "b", ":", "2">>
    /\ RevalidateTagOf(<<Sc_admin>>, << << <<"tenant", <<"1">> >> >> >>)
            = <<"A">>
    /\ RevalidateTagOf(<<>>, << << <<"tenant", <<"1">> >> >> >>) = Root

\* how many tags a leaf registers: its own and one per proper ancestor, in
\* the scoped tree (the scope being one more segment) and in the unscoped
TagCount(node) ==
    LET d == Len(ResourcePathOf(node))
    IN  IF Len(ScopeOf(node)) = 0 THEN d ELSE (d + 1) + d

\* C23: after a call of an operation its own primitive has been invoked
\* once and the two others not at all; cacheTag hands over the whole list
\* in that one invocation, revalidateTag a tag and "max", updateTag a tag;
\* after construction and before any call no primitive has been invoked.
C23_OnePrimitiveOnce ==
    /\ call.op = "none" =>
        mockCacheTag = <<>> /\ mockRevalidateTag = <<>> /\ mockUpdateTag = <<>>
    /\ call.op = "cacheTag" =>
        /\ Len(mockCacheTag) = 1
        /\ mockRevalidateTag = <<>> /\ mockUpdateTag = <<>>
        /\ Len(mockCacheTag[1]) = TagCount(CalledNode)
    /\ call.op = "revalidateTag" =>
        /\ Len(mockRevalidateTag) = 1
        /\ mockCacheTag = <<>> /\ mockUpdateTag = <<>>
        /\ Len(mockRevalidateTag[1]) = 2
        /\ mockRevalidateTag[1][2] = Max
    /\ call.op = "updateTag" =>
        /\ Len(mockUpdateTag) = 1
        /\ mockCacheTag = <<>> /\ mockRevalidateTag = <<>>
        /\ Len(mockUpdateTag[1]) = 1

C23_Witness ==
    /\ call.op = "updateTag"
    /\ Len(scopes) = 2
    /\ Len(ScopeOf(CalledNode)) = 0
    /\ IsLeafAt(call.at)
    /\ Len(call.at) = 2
    /\ Len(mockUpdateTag) = 1
    /\ Len(WouldSend(call.at, K_cacheTag, call.args).args) = 2
    /\ Len(WouldSend(<<Sc_admin>> \o call.at, K_cacheTag, call.args).args) = 5

\* the argument list holding the entries of the call's object for the
\* names accumulated along the first m segments of a path
RestrictedTo(path, m) ==
    <<SelectSeq(OrEmpty(call.args),
                LAMBDA e : e[1] \in AccumulatedNames(SubSeq(path, 1, m)))>>

\* the branch above the called node at depth m sends, for the restricted
\* object, a tag the call registered
AncestorReaches(m) ==
    LET at == ScopeOf(CalledNode) \o SubSeq(ResourcePathOf(CalledNode), 1, m)
        V_B == RestrictedTo(ResourcePathOf(CalledNode), m)
    IN  /\ RevalidateTagOf(at, V_B) \in Range(mockCacheTag[1])
        /\ UpdateTagOf(at, V_B) \in Range(mockCacheTag[1])

\* cacheTag was called on a leaf with a value for each accumulated name
CompleteCacheTag ==
    /\ call.op = "cacheTag"
    /\ SuppliedNames(OrEmpty(call.args))
            = AccumulatedNames(ResourcePathOf(CalledNode))

\* C27: after L.cacheTag(V), V complete, every proper ancestor branch of L
\* in its tree, the root of the tree included, sends for V restricted to
\* its own names a tag that is in the list registered.
C27_AncestorWithValuesReaches ==
    CompleteCacheTag =>
        \A m \in 0..(Len(ResourcePathOf(CalledNode)) - 1) : AncestorReaches(m)

\* what holds: every proper ancestor other than the facade root does
AncestorsBelowFacadeRootReach ==
    CompleteCacheTag =>
        \A m \in 0..(Len(ResourcePathOf(CalledNode)) - 1) :
            (m > 0 \/ Len(ScopeOf(CalledNode)) > 0) => AncestorReaches(m)

\* the names the schema declares somewhere but no segment of the called
\* node's path does
UnboundNames ==
    DeclaredNames(schema) \ AccumulatedNames(ResourcePathOf(CalledNode))

\* C28: the call recorded is the call the method makes for the object
\* without the entry of a name that no segment of the node's path declares,
\* for the object with any other value under such a name, and for the
\* object listed in the opposite order.
C28_UnboundNamesIgnored ==
    [](call.op # "none" =>
        LET method == Get(CalledNode, KeyOf(call.op))
        IN  /\ RecordedExactly(Apply(method, <<reverse(OrEmpty(call.args))>>))
            /\ \A name \in UnboundNames :
                /\ RecordedExactly(Apply(method, Without(call.args, name)))
                /\ \A v \in ParamValues :
                    RecordedExactly(
                        Apply(method, WithValue(call.args, name, v))))

C28_Witness ==
    /\ call.op = "cacheTag"
    /\ schema = hierarchicalSchema
    /\ call.at = <<Sc_admin, S_workspaces, S_docs, S_list>>
    /\ call.args = << << <<"id", <<"2">> >>, <<"userId", <<"1">> >> >> >>
    /\ mockCacheTag[1][1] = <<"A", "/", "w", ":", "1", "/", "d", "/", "l">>
    /\ RecordedExactly(CalledWith(<< << <<"userId", <<"1">> >> >> >>))

\* the values that hold neither '/' nor ':'
PlainValues ==
    {v \in ParamValues : \A i \in 1..Len(v) : v[i] \notin {"/", ":"}}

\* the objects that list the names of params in the same order with plain
\* values, one at least differing from the value params gives
OtherInstances(params) ==
    {q \in {[i \in 1..Len(params) |-> <<params[i][1], f[i]>>] :
                f \in [1..Len(params) -> PlainValues]} : q # params}

\* a method of a leaf was called with plain values for exactly the names
\* bound along its path, one at least
PinpointCall ==
    /\ call.op # "none"
    /\ IsLeafAt(call.at)
    /\ Len(call.args) = 1
    /\ Len(call.args[1]) > 0
    /\ SuppliedNames(call.args[1]) = AccumulatedNames(ResourcePathOf(CalledNode))
    /\ \A i \in 1..Len(call.args[1]) : call.args[1][i][2] \in PlainValues

-----------------------------------------------------------------------------
(* Properties of repeated calls (SpecSequence)                             *)

\* the calls a mock received for one primitive
MockOf(prim) ==
    CASE prim = "cacheTag" -> mockCacheTag
      [] prim = "revalidateTag" -> mockRevalidateTag
      [] prim = "updateTag" -> mockUpdateTag

-----------------------------------------------------------------------------
(* Properties of partial objects (SpecTagBuilder)                          *)

\* the number of '/'-separated pieces of a tag
Pieces(tag) == 1 + Cardinality({i \in 1..Len(tag) : tag[i] = "/"})

\* no value of the object holds a '/'
SlashFree(params) ==
    \A i \in 1..Len(params) : ~Contains(params[i][2], Slash)

\* C25: the embedded tag rendered with any object that keeps some of the
\* entries of V is at most as long as the tag rendered with V, and, when no
\* value of V holds a '/', has as many '/'-separated pieces, one per
\* segment of the path.
C25_PartialNeverLonger ==
    ret.fn = "buildTagWithEmbeddedParams" =>
        \A S \in SubMaps(ret.args.params) :
            LET partial == buildTagWithEmbeddedParams(ret.args.path,
                                ret.args.paramsBySegment, S)
            IN  /\ Len(partial) <= Len(ret.value)
                /\ SlashFree(ret.args.params) =>
                    /\ Pieces(partial) = Pieces(ret.value)
                    /\ Len(ret.args.path) > 0 =>
                            Pieces(partial) = Len(ret.args.path)

C25_Witness ==
    /\ ret.fn = "buildTagWithEmbeddedParams"
    /\ ret.args.params = << <<"x", <<"1">> >>, <<"y", <<"2">> >> >>
    /\ ret.args.path = <<S_users, S_byId>>
    /\ DOMAIN ret.args.paramsBySegment = {0, 1}
    /\ ret.value = <<"u", ":", "2", ":", "1", "/", "b", ":", "2", ":", "1">>
    /\ buildTagWithEmbeddedParams(ret.args.path, ret.args.paramsBySegment,
                                  << <<"x", <<"1">> >> >>)
            = <<"u", ":", "1", "/", "b", ":", "1">>

-----------------------------------------------------------------------------
(* Properties of construction (SpecCreateCache)                            *)

\* the key paths of a schema value: itself, and every value reached through
\* keys other than the parameter declaration
RECURSIVE SchemaNodePaths(_)
SchemaNodePaths(sch) ==
    {<<>>} \cup
    UNION {{<<key>> \o rest : rest \in SchemaNodePaths(Get(sch, key))} :
            key \in (IF sch.t \in {"obj", "arr"}
                     THEN Range(ObjectKeys(sch)) \ {K_params} ELSE {})}

\* no scope is named like a top-level resource or a field of the root
NoCollision(sch, scopeList) ==
    Range(scopeList) \cap (Range(getChildKeys(sch))
                            \cup {K_revalidateTag, K_updateTag, K_path}) = {}

\* C26: createCache returns a facade and raises nothing, whatever the
\* schema holds; it walks the schema once for the unscoped tree and once
\* per scope, each walk building one node for every schema node and none
\* twice, and the facade holds exactly these nodes (those of the unscoped
\* tree as far as no scope took the name of one).
C26_ConstructionTotal ==
    ret.fn = "createCache" =>
        /\ ~ret.value.raised
        /\ cache.t = "obj"
        /\ Len(ret.value.visits) = 1 + Len(scopes)
        /\ \A w \in 1..Len(ret.value.visits) :
            /\ Range(ret.value.visits[w]) = SchemaNodePaths(schema)
            /\ Len(ret.value.visits[w]) = Cardinality(SchemaNodePaths(schema))
        /\ NoCollision(schema, scopes) =>
            {at \in ObjectPaths(cache) :
                Len(at) = 0 \/ at[1] \notin Range(scopes)}
                = SchemaNodePaths(schema)
        /\ \A i \in 1..Len(scopes) :
            {Tail(at) : at \in {a \in ObjectPaths(cache) :
                                    Len(a) > 0 /\ a[1] = scopes[i]}}
                = SchemaNodePaths(schema)

C26_Witness ==
    /\ ret.fn = "createCache"
    /\ ~ret.value.raised
    /\ Len(scopes) = 2
    /\ schema = Obj(<< <<S_users,
                         Obj(<< <<S_docs, Null>>,
                                <<S_byId, Arr(<<"a">>)>> >>)>> >>)
    /\ Cardinality(ObjectPaths(cache)) = 15
    /\ <<Sc_public, S_users, S_docs>> \in ObjectPaths(cache)

\* the tree the node under a key of the facade belongs to
TreeOf(key) == ScopeOf(Get(cache, key))

\* C29: every scope is a field of the facade holding the root of its
\* scoped tree, whose path field is the scope name, also when a top-level
\* resource or a field of the root has that name, which is then reachable
\* no more; the fields come in the order of the unscoped tree followed by
\* the scopes not yet among them; without such a name clash every
\* top-level resource is the unscoped node of its name and the root keeps
\* its own fields.
C29_ScopesOverwrite ==
    ret.fn = "createCache" =>
        /\ \A i \in 1..Len(scopes) :
            /\ Has(cache, scopes[i])
            /\ Get(cache, scopes[i]).t = "obj"
            /\ TreeOf(scopes[i]) = <<scopes[i]>>
            /\ Get(Get(cache, scopes[i]), K_path) = Str(scopes[i])
            /\ \A at \in ObjectPaths(Get(cache, scopes[i])) :
                ScopeOf(Navigate(Get(cache, scopes[i]), at)) = <<scopes[i]>>
        /\ ObjectKeys(cache)
            = ObjectKeys(buildUnscopedBranch(schema, <<>>, EmptyMap))
                \o SelectSeq(scopes, LAMBDA s :
                        ~Has(buildUnscopedBranch(schema, <<>>, EmptyMap), s))
        /\ NoCollision(schema, scopes) =>
            /\ \A k \in Range(getChildKeys(schema)) :
                /\ TreeOf(k) = <<>>
                /\ Get(Get(cache, k), K_path) = Str(k)
            /\ HasMethod(cache, K_revalidateTag)
            /\ HasMethod(cache, K_updateTag)
            /\ Get(cache, K_path) = Str(<<>>)

C29_Witness ==
    /\ ret.fn = "createCache"
    /\ scopes = <<Sc_admin, S_users>>
    /\ schema = Obj(<< <<S_users, LeafWith(<<"id">>)>> >>)
    /\ TreeOf(S_users) = <<S_users>>
    /\ ~HasMethod(Get(cache, S_users), K_cacheTag)
    /\ HasMethod(Navigate(cache, <<S_users, S_users>>), K_cacheTag)
    /\ HasMethod(Navigate(cache, <<Sc_admin, S_users>>), K_cacheTag)
=============================================================================
